---- MODULE Spec2Model ----
(***************************************************************************)
(* Verification model of the bcachefs B+tree transaction engine as used by *)
(* bcachefs-tools: the restart loops of btree/iter.h, the six-lock         *)
(* protocol on tree nodes, the commit path and the journal.                *)
(***************************************************************************)
EXTENDS Integers, Sequences, FiniteSets, TLC

(***************************************************************************)
(* Bounds of the model.                                                    *)
(***************************************************************************)
\* restarts of the transactions taken together
MaxRestarts == 2
\* keys one open journal entry takes before reservations fail
JournalEntryKeys == 2
\* commits made before the crash
MaxCommits == 2
\* jsets found in the journal at mount
MaxJsets == 3
\* calls of bch2_trans_begin inside one nested_lockrestart_do
MaxNestedBegins == 2
\* width, in bits, the u32 counters (lock seq, restart_count) are scaled to
CounterBits == 3

\* slots of a transaction's path table after the unused slot 0
NrPaths == 2
\* width of a path's reference counts (u8 in the source)
PathRefBits == 2
\* bytes of a transaction's arena as bch2_trans_get leaves it
ArenaBytes == 16
\* the size an arena may grow to
ArenaMax == 24
\* the soft limit on a transaction's paths
BTREE_ITER_NORMAL_LIMIT == 10
\* the size of a transaction's path table, slot 0 included
BTREE_ITER_MAX == 12
\* commits that write before the filesystem goes read-only
MaxEmCommits == 2
\* bits of one byte of a superblock integer, which has two bytes
SbByteBits == 2
\* buckets of the device
SbBuckets == 5
\* journal buckets of the device
SbJournalBuckets == 3
\* options on an fsck command line
MaxFsckOptions == 3
\* the last position of the tree a loop walks (SPOS_MAX, scaled)
MaxFePos == 3
\* sectors of a bucket of the device that is migrated
MgBucketSectors == 4
\* buckets of the device that is migrated
MgNBuckets == 6
\* sectors of a block of the old filesystem
MgBlockSectors == 2
\* the lowest sector find_superblock_space accepts (256k in the source)
MgSbFloorSectors == 2
\* entries of the sb_offset array of a superblock layout (61 in the source)
SbLayoutOffsets == 4
\* entries of a journal field that is validated
MaxJournalFieldEntries == 2
\* bios chained to one parent
MaxBioChildren == 2
\* bytes of a sector, the unit op->written counts in (512 in the source)
FwSectorBytes == 2
\* sectors of a block of the filesystem
FwBlockSectors == 2
\* the largest offset and the largest size of a FUSE write
MaxFwBytes == 6
\* the most options of one option string
MaxMountOptions == 2
\* the most entries read behind the mount flag table in one search
MaxBeyondReads == 2
CounterMod == 2 ^ CounterBits

(***************************************************************************)
(* Error codes.  A restart is reported as -err where err is a code whose   *)
(* class is BCH_ERR_transaction_restart.                                   *)
(***************************************************************************)
BCH_ERR_START == 2048
BCH_ERR_transaction_restart == BCH_ERR_START + 1
BCH_ERR_transaction_restart_relock == BCH_ERR_START + 2
BCH_ERR_transaction_restart_upgrade == BCH_ERR_START + 3
BCH_ERR_transaction_restart_would_deadlock == BCH_ERR_START + 4
BCH_ERR_transaction_restart_journal_reclaim == BCH_ERR_START + 5
BCH_ERR_transaction_restart_nested == BCH_ERR_START + 6
BCH_ERR_transaction_restart_lock_contended == BCH_ERR_START + 7
BCH_ERR_transaction_restart_mem_realloced == BCH_ERR_START + 8
BCH_ERR_transaction_restart_too_many_iters == BCH_ERR_START + 9
BCH_ERR_ENOSPC_disk_reservation == BCH_ERR_START + 20
BCH_ERR_ENOENT_bkey_type_mismatch == BCH_ERR_START + 21
BCH_ERR_emergency_readonly == BCH_ERR_START + 22
BCH_ERR_ENOSPC_sb_journal == BCH_ERR_START + 24
BCH_ERR_io_error == BCH_ERR_START + 23
\* not an error code: the thread would sleep on the lock
SIX_LOCK_WOULD_BLOCK == BCH_ERR_START + 99

RestartCodes ==
    { BCH_ERR_transaction_restart_relock, BCH_ERR_transaction_restart_upgrade,
      BCH_ERR_transaction_restart_would_deadlock,
      BCH_ERR_transaction_restart_journal_reclaim,
      BCH_ERR_transaction_restart_nested,
      BCH_ERR_transaction_restart_lock_contended,
      BCH_ERR_transaction_restart_mem_realloced,
      BCH_ERR_transaction_restart_too_many_iters }

\* the class an error code belongs to (its parent in the error hierarchy)
bch2_err_class(err) ==
    IF err \in RestartCodes THEN BCH_ERR_transaction_restart ELSE err

abs(x) == IF x < 0 THEN -x ELSE x

bch2_err_matches(err, class) ==
    LET e == abs(err) IN
    e # 0 /\ (e = class \/ bch2_err_class(e) = class)

(***************************************************************************)
(* Tree nodes.  One tree with an interior root r over two leaves a and b.  *)
(***************************************************************************)
Trans == {"t1", "t2"}
Nodes == {"r", "a", "b"}
Leaves == {"a", "b"}

node_btree_id == [n \in Nodes |-> 0]
node_level == [n \in Nodes |-> IF n = "r" THEN 1 ELSE 0]
node_pos == [n \in Nodes |-> IF n = "a" THEN 1 ELSE 2]

\* lock order: (btree_id, level descending, position ascending)
TreeLess(n, m) ==
    \/ node_btree_id[n] < node_btree_id[m]
    \/ /\ node_btree_id[n] = node_btree_id[m]
       /\ node_level[n] > node_level[m]
    \/ /\ node_btree_id[n] = node_btree_id[m]
       /\ node_level[n] = node_level[m]
       /\ node_pos[n] < node_pos[m]

BodyPcs == {"_do", "unlocked", "upgrade", "mutate_journal", "unlock"}

VARIABLES
    pc,             \* where each transaction's thread is
    trans,          \* struct btree_trans of each transaction
    paths,          \* trans->paths: one path per node it points at
    lrd,            \* the locals of lockrestart_do: _restart_count, _ret2
    six,            \* the six lock of every node
    btree,          \* the keys every node holds
    journal_keys,   \* keys written to the journal, with their seq
    journal,        \* the open journal entry: cur_seq, cur_u64s, cur_keys
    hist            \* history: body runs, restarts, write releases

mainVars == <<pc, trans, paths, lrd, six, btree, journal_keys, journal, hist>>

\* a transaction inside nested_lockrestart_do
VARIABLES
    npc,            \* where the thread is in nested_lockrestart_do
    ntrans,         \* its struct btree_trans
    nlrd            \* the locals of the macro, its result, and counts

nestedVars == <<npc, ntrans, nlrd>>

\* a filesystem that commits, writes its journal, crashes and is mounted again
VARIABLES
    fs,             \* running, crashed or mounted; the options; the tree in memory
    commits,        \* the commits made: their keys and journal seq
    fsynced,        \* the commits for which fsync has returned
    dtree,          \* the tree nodes as written to the device
    jopen,          \* the open journal entry
    jdisk           \* the jsets on the device

crashVars == <<fs, commits, fsynced, dtree, jopen, jdisk>>

\* further parts of the filesystem, each kept in one record
VARIABLES
    mx,             \* threads taking a mutex inside a transaction
    jr,             \* the journal as a ring of entries with reservations
    al,             \* buckets and the allocator
    snap,           \* the snapshot table
    it,             \* an iterator over a snapshotted tree
    tp,             \* the paths and iterators of one transaction
    em,             \* commits under the emergency read-only flag
    sb,             \* the journal fields of the superblock
    fk,             \* an fsck invocation
    fu,             \* a FUSE request in its retry loop
    sl,             \* a slot lookup through a path
    ar,             \* arena: one transaction's scratch memory under lockrestart_do
    ti,             \* path table of a transaction that checks for too many iterators
    fe,             \* a for_each_btree_key_max loop
    mg,             \* bcachefs migrate: the device of the new filesystem
    ly,             \* a superblock layout given to add_default_sb_layout
    jv,             \* a journal field of the superblock given to its validator
    bi,             \* a bio, the bios chained to it and their completions
    fr,             \* the directories a FUSE rename works on
    fw,             \* a FUSE write request
    mo              \* a call of parse_mount_options

ext1Vars == <<mx, jr, al, snap, it>>

ext2Vars == <<tp, em, sb, fk, fu, sl, ar, ti, fe, mg, ly, jv, bi, fr, fw, mo>>

extVars == <<ext1Vars, ext2Vars>>

vars == <<mainVars, nestedVars, crashVars, extVars>>

\* the parts that a specification leaves out stay switched off
ExtOff(used) ==
    /\ IF "mx" \in used THEN TRUE ELSE mx = "off"
    /\ IF "jr" \in used THEN TRUE ELSE jr = "off"
    /\ IF "al" \in used THEN TRUE ELSE al = "off"
    /\ IF "snap" \in used THEN TRUE ELSE snap = "off"
    /\ IF "it" \in used THEN TRUE ELSE it = "off"
    /\ IF "tp" \in used THEN TRUE ELSE tp = "off"
    /\ IF "em" \in used THEN TRUE ELSE em = "off"
    /\ IF "sb" \in used THEN TRUE ELSE sb = "off"
    /\ IF "fk" \in used THEN TRUE ELSE fk = "off"
    /\ IF "fu" \in used THEN TRUE ELSE fu = "off"
    /\ IF "sl" \in used THEN TRUE ELSE sl = "off"
    /\ IF "ar" \in used THEN TRUE ELSE ar = "off"
    /\ IF "ti" \in used THEN TRUE ELSE ti = "off"
    /\ IF "fe" \in used THEN TRUE ELSE fe = "off"
    /\ IF "mg" \in used THEN TRUE ELSE mg = "off"
    /\ IF "ly" \in used THEN TRUE ELSE ly = "off"
    /\ IF "jv" \in used THEN TRUE ELSE jv = "off"
    /\ IF "bi" \in used THEN TRUE ELSE bi = "off"
    /\ IF "fr" \in used THEN TRUE ELSE fr = "off"
    /\ IF "fw" \in used THEN TRUE ELSE fw = "off"
    /\ IF "mo" \in used THEN TRUE ELSE mo = "off"

\* a step of one of these parts leaves the others as they are
Ext2Keep(used) ==
    /\ IF "tp" \in used THEN TRUE ELSE UNCHANGED tp
    /\ IF "em" \in used THEN TRUE ELSE UNCHANGED em
    /\ IF "sb" \in used THEN TRUE ELSE UNCHANGED sb
    /\ IF "fk" \in used THEN TRUE ELSE UNCHANGED fk
    /\ IF "fu" \in used THEN TRUE ELSE UNCHANGED fu
    /\ IF "sl" \in used THEN TRUE ELSE UNCHANGED sl
    /\ IF "ar" \in used THEN TRUE ELSE UNCHANGED ar
    /\ IF "ti" \in used THEN TRUE ELSE UNCHANGED ti
    /\ IF "fe" \in used THEN TRUE ELSE UNCHANGED fe
    /\ IF "mg" \in used THEN TRUE ELSE UNCHANGED mg
    /\ IF "ly" \in used THEN TRUE ELSE UNCHANGED ly
    /\ IF "jv" \in used THEN TRUE ELSE UNCHANGED jv
    /\ IF "bi" \in used THEN TRUE ELSE UNCHANGED bi
    /\ IF "fr" \in used THEN TRUE ELSE UNCHANGED fr
    /\ IF "fw" \in used THEN TRUE ELSE UNCHANGED fw
    /\ IF "mo" \in used THEN TRUE ELSE UNCHANGED mo

(***************************************************************************)
(* Six locks.                                                              *)
(***************************************************************************)
six_lock_seq(lock) == lock.seq

\* does t hold the node locked (read or intent; write implies intent)
Holds(t, n) == t \in six[n].read \cup six[n].intent

\* six_trylock with intent granted next to another intent holder
six_trylock_intent_shared(lock, t, type) ==
    CASE type = "read" -> lock.write = {}
      [] type = "intent" -> TRUE
      [] type = "write" -> /\ t \in lock.intent
                           /\ lock.write = {}
                           /\ lock.read \ {t} = {}

\* a trylock of the given type succeeds
six_trylock(lock, t, type) ==
    CASE type = "read" -> lock.write = {}
      [] type = "intent" -> lock.intent = {}
      [] type = "write" -> /\ t \in lock.intent
                           /\ lock.write = {}
                           /\ lock.read \ {t} = {}

\* the lock after t took it
six_lock_take(lock, t, type) ==
    CASE type = "read" -> [lock EXCEPT !.read = @ \cup {t}]
      [] type = "intent" -> [lock EXCEPT !.intent = @ \cup {t}]
      [] type = "write" -> [lock EXCEPT !.write = @ \cup {t}]

\* release of a write lock: the sequence number moves on
six_unlock_write(lock, t) ==
    [lock EXCEPT !.write = @ \ {t}, !.seq = (@ + 1) % CounterMod]

\* release of read and intent
six_unlock(lock, t) ==
    [lock EXCEPT !.read = @ \ {t}, !.intent = @ \ {t}]

(***************************************************************************)
(* Paths.                                                                  *)
(***************************************************************************)
NoPath == [alloc |-> FALSE, lock_seq |-> 0, want |-> "none", run |-> 0, rec |-> 0]

\* btree_node_lock_seq_matches without the comparison
btree_node_lock_seq_matches_unchecked(path, b) == TRUE

btree_node_lock_seq_matches(path, b) ==
    path.lock_seq = six_lock_seq(six[b])

__path_has_node(path, b) ==
    path.alloc /\ btree_node_lock_seq_matches(path, b)

__bch2_btree_trans_sort_paths(tr) ==
    [tr EXCEPT !.sorted = SortSeq(@, TreeLess), !.paths_sorted = TRUE]

CONFIG_BCACHEFS_DEBUG == FALSE

\* btree_trans_sort_paths that leaves the list as it is
btree_trans_sort_paths_skipped(tr) == tr

btree_trans_sort_paths(tr) ==
    IF ~CONFIG_BCACHEFS_DEBUG /\ tr.paths_sorted
    THEN tr
    ELSE __bch2_btree_trans_sort_paths(tr)

\* a new path is linked at the end of the sorted list
btree_path_alloc(tr, n) ==
    [tr EXCEPT
        !.sorted = Append(@, n),
        !.paths_sorted = /\ tr.paths_sorted
                         /\ \/ Len(tr.sorted) = 0
                            \/ TreeLess(tr.sorted[Len(tr.sorted)], n)]

SeqIndex(s, x) == CHOOSE i \in 1..Len(s) : s[i] = x

\* a path later in the sorted list is already locked by the transaction
lock_order_violated(tr, t, n) ==
    LET i == SeqIndex(tr.sorted, n) IN
    \E j \in (i + 1)..Len(tr.sorted) : Holds(t, tr.sorted[j])

\* btree_node_lock that sleeps on a contended lock
btree_node_lock_sleeps(tr, t, n, type) ==
    IF ~six_trylock(six[n], t, type) THEN SIX_LOCK_WOULD_BLOCK ELSE 0

\* 0 when the lock was taken; else the restart code
btree_node_lock(tr, t, n, type) ==
    IF lock_order_violated(tr, t, n)
    THEN BCH_ERR_transaction_restart_would_deadlock
    ELSE IF ~six_trylock(six[n], t, type)
    THEN BCH_ERR_transaction_restart_lock_contended
    ELSE 0

(***************************************************************************)
(* Restart bookkeeping of a transaction.                                   *)
(***************************************************************************)
\* the address of the call site
_THIS_IP_ == "ip"

btree_trans_restart_foreign_task(tr, err, ip) ==
    [trans |-> [tr EXCEPT !.restarted = err, !.last_restarted_ip = ip],
     ret |-> -err]

btree_trans_restart_ip(tr, err, ip) ==
    btree_trans_restart_foreign_task(tr, err, ip)

\* trans_was_restarted that never reports a restart
trans_was_restarted_never(tr, restart_count) == 0

trans_was_restarted(tr, restart_count) ==
    IF restart_count # tr.restart_count
    THEN -BCH_ERR_transaction_restart_nested
    ELSE 0

\* begin: pending updates and the arena are reset, the paths are freed, the
\* restart count moves on when this is a retry
bch2_trans_begin(tr) ==
    [tr EXCEPT
        !.updates = {},
        !.sorted = <<>>,
        !.paths_sorted = TRUE,
        !.journal_res = 0,
        !.restart_count = IF tr.restarted # 0 THEN (@ + 1) % CounterMod ELSE @,
        !.restarted = 0]

\* lockrestart_do that jumps back to the body, past bch2_trans_begin
lockrestart_do_skips_begin(tr, _restart_count, _ret2) ==
    IF bch2_err_matches(_ret2, BCH_ERR_transaction_restart)
    THEN "_do"
    ELSE IF _ret2 = 0 /\ trans_was_restarted(tr, _restart_count) # 0
    THEN "panic"
    ELSE "return"

\* lockrestart_do without the goto
lockrestart_do_no_goto(tr, _restart_count, _ret2) ==
    IF _ret2 = 0 /\ trans_was_restarted(tr, _restart_count) # 0
    THEN "panic"
    ELSE "return"

\* what lockrestart_do does with the result of its body
lockrestart_do(tr, _restart_count, _ret2) ==
    IF bch2_err_matches(_ret2, BCH_ERR_transaction_restart)
    THEN "transaction_restart"
    ELSE IF _ret2 = 0 /\ trans_was_restarted(tr, _restart_count) # 0
    THEN "panic"
    ELSE "return"

(***************************************************************************)
(* The commit path: the order of its steps.                                *)
(*   validate_reserve  steps 1-3: intent on every leaf, journal and disk   *)
(*                     reservation                                         *)
(*   upgrade           step 4: intent becomes write                        *)
(*   mutate_journal    steps 5-7: keys into the leaves and the journal     *)
(*   unlock            step 8                                              *)
(***************************************************************************)
\* the commit path with the keys inserted before the write locks are taken
commit_steps_mutate_first ==
    <<"validate_reserve", "mutate_journal", "upgrade", "unlock">>

commit_steps ==
    <<"validate_reserve", "upgrade", "mutate_journal", "unlock">>

commit_next_step(step) ==
    LET i == SeqIndex(commit_steps, step) IN
    IF i = Len(commit_steps) THEN "lrd_check" ELSE commit_steps[i + 1]

UpdateNodes(tr) == {u.node : u \in tr.updates}

\* the errors only a commit returns
CommitErrors ==
    { BCH_ERR_transaction_restart_upgrade,
      BCH_ERR_transaction_restart_journal_reclaim,
      BCH_ERR_ENOSPC_disk_reservation }

(***************************************************************************)
(* Initial state: no transaction has begun, every lock is free.            *)
(***************************************************************************)
\* the counters start one step before they wrap
Counter0 == CounterMod - 1

\* a transaction as bch2_trans_get leaves it
NewTrans(count) ==
    [restarted |-> 0, restart_count |-> count, last_restarted_ip |-> "",
     updates |-> {}, sorted |-> <<>>, paths_sorted |-> TRUE,
     journal_res |-> 0]

MainInit ==
    /\ pc = [t \in Trans |-> "transaction_restart"]
    /\ trans = [t \in Trans |-> NewTrans(Counter0)]
    /\ paths = [t \in Trans |-> [n \in Nodes |-> NoPath]]
    /\ lrd = [t \in Trans |-> [_restart_count |-> 0, _ret2 |-> 0]]
    /\ six = [n \in Nodes |->
                [read |-> {}, intent |-> {}, write |-> {}, seq |-> Counter0]]
    /\ btree = [n \in Nodes |-> {}]
    /\ journal_keys = {}
    /\ journal = [cur_seq |-> 1, cur_u64s |-> 0, cur_keys |-> 0]
    /\ hist = [body_run |-> [t \in Trans |-> 0],
               restarts |-> 0,
               wrel |-> [n \in Nodes |-> 0]]

\* the body of a transaction returns ret to its restart loop
BodyRet(t, tr, ret) ==
    /\ trans' = [trans EXCEPT ![t] = tr]
    /\ lrd' = [lrd EXCEPT ![t]._ret2 = ret]
    /\ pc' = [pc EXCEPT ![t] = "lrd_check"]

\* an operation of the body fails with a restart
BodyRestart(t, tr, err, ip) ==
    LET r == btree_trans_restart_ip(tr, err, ip) IN
    BodyRet(t, r.trans, r.ret)

(***************************************************************************)
(* lockrestart_do, as used by bch2_trans_do                                *)
(***************************************************************************)
\* bch2_trans_begin and the start of the body
TransBegin(t) ==
    /\ LET tr == bch2_trans_begin(trans[t]) IN
        /\ trans' = [trans EXCEPT ![t] = tr]
        /\ lrd' = [lrd EXCEPT ![t] =
                      [_restart_count |-> tr.restart_count, _ret2 |-> 0]]
    /\ paths' = [paths EXCEPT ![t] = [n \in Nodes |-> NoPath]]
    /\ six' = [n \in Nodes |-> six_unlock(six[n], t)]
    /\ pc' = [pc EXCEPT ![t] = "_do"]

\* bch2_trans_put: the transaction ends, its paths and locks are released
TransPut(t) ==
    /\ paths' = [paths EXCEPT ![t] = [n \in Nodes |-> NoPath]]
    /\ six' = [n \in Nodes |-> six_unlock(six[n], t)]
    /\ trans' = [trans EXCEPT ![t].sorted = <<>>, ![t].paths_sorted = TRUE,
                              ![t].updates = {}]

\* entry of lockrestart_do: the label transaction_restart
LrdBegin(t) ==
    /\ UNCHANGED <<nestedVars, crashVars, extVars>>
    /\ pc[t] = "transaction_restart"
    /\ TransBegin(t)
    /\ hist' = [hist EXCEPT !.body_run[t] = @ + 1]
    /\ UNCHANGED <<btree, journal_keys, journal>>

\* the body has returned _ret2
LrdCheck(t) ==
    /\ UNCHANGED <<nestedVars, crashVars, extVars>>
    /\ pc[t] = "lrd_check"
    /\ LET next == lockrestart_do(trans[t], lrd[t]._restart_count, lrd[t]._ret2) IN
        CASE next = "transaction_restart" ->
                /\ hist.restarts < MaxRestarts
                /\ TransBegin(t)
                /\ hist' = [hist EXCEPT !.body_run[t] = @ + 1, !.restarts = @ + 1]
          [] next = "_do" ->
                /\ hist.restarts < MaxRestarts
                /\ pc' = [pc EXCEPT ![t] = "_do"]
                /\ hist' = [hist EXCEPT !.body_run[t] = @ + 1, !.restarts = @ + 1]
                /\ UNCHANGED <<trans, paths, lrd, six>>
          [] next = "return" ->
                /\ pc' = [pc EXCEPT ![t] = "return"]
                /\ TransPut(t)
                /\ UNCHANGED <<lrd, hist>>
          [] OTHER ->
                /\ pc' = [pc EXCEPT ![t] = next]
                /\ UNCHANGED <<trans, paths, lrd, six, hist>>
    /\ UNCHANGED <<btree, journal_keys, journal>>

(***************************************************************************)
(* Operations of the body                                                  *)
(***************************************************************************)
\* the root is only read; leaves are read or taken with intent
LockModes(n) == IF node_level[n] > 0 THEN {"read"} ELSE {"read", "intent"}

\* bch2_path_get and traversal: a path to node n, locked as wanted
LockNode(t, n, want) ==
    /\ UNCHANGED <<nestedVars, crashVars, extVars>>
    /\ pc[t] = "_do"
    /\ ~paths[t][n].alloc
    /\ LET tr1 == btree_trans_sort_paths(btree_path_alloc(trans[t], n))
           err == btree_node_lock(tr1, t, n, want)
           newpath == [alloc |-> TRUE, lock_seq |-> six_lock_seq(six[n]),
                       want |-> want, run |-> hist.body_run[t],
                       rec |-> hist.wrel[n]]
       IN
        /\ paths' = [paths EXCEPT ![t][n] = newpath]
        /\ IF err = 0
           THEN /\ six' = [six EXCEPT ![n] = six_lock_take(@, t, want)]
                /\ trans' = [trans EXCEPT ![t] = tr1]
                /\ UNCHANGED <<pc, lrd>>
           ELSE IF err = SIX_LOCK_WOULD_BLOCK
           THEN /\ pc' = [pc EXCEPT ![t] = "lock_wait"]
                /\ trans' = [trans EXCEPT ![t] = tr1]
                /\ UNCHANGED <<six, lrd>>
           ELSE /\ BodyRestart(t, tr1, err, _THIS_IP_)
                /\ UNCHANGED six
    /\ UNCHANGED <<btree, journal_keys, journal, hist>>

\* update(key): stage a key for the leaf the path points at
Update(t, n) ==
    /\ UNCHANGED <<nestedVars, crashVars, extVars>>
    /\ pc[t] = "_do"
    /\ n \in Leaves
    /\ paths[t][n].alloc
    /\ Holds(t, n)
    /\ n \notin UpdateNodes(trans[t])
    /\ trans' = [trans EXCEPT ![t].updates =
                    @ \cup {[node |-> n, run |-> hist.body_run[t]]}]
    /\ UNCHANGED <<pc, paths, lrd, six, btree, journal_keys, journal, hist>>

\* the body returns without committing
BodyReturn(t, ret) ==
    /\ UNCHANGED <<nestedVars, crashVars, extVars>>
    /\ pc[t] = "_do"
    /\ BodyRet(t, trans[t], ret)
    /\ UNCHANGED <<paths, six, btree, journal_keys, journal, hist>>

\* bch2_trans_unlock, the first half of drop_locks_do
TransUnlock(t) ==
    /\ UNCHANGED <<nestedVars, crashVars, extVars>>
    /\ pc[t] = "_do"
    /\ trans[t].updates = {}
    /\ \E n \in Nodes : Holds(t, n)
    /\ six' = [n \in Nodes |-> six_unlock(six[n], t)]
    /\ pc' = [pc EXCEPT ![t] = "unlocked"]
    /\ UNCHANGED <<trans, paths, lrd, btree, journal_keys, journal, hist>>

\* bch2_trans_relock, the second half of drop_locks_do
TransRelock(t) ==
    /\ UNCHANGED <<nestedVars, crashVars, extVars>>
    /\ pc[t] = "unlocked"
    /\ LET P == {n \in Nodes : paths[t][n].alloc}
           ok == \A n \in P :
                    /\ btree_node_lock_seq_matches(paths[t][n], n)
                    /\ six_trylock(six[n], t, paths[t][n].want)
       IN
        IF ok
        THEN /\ six' = [n \in Nodes |->
                          IF n \in P
                          THEN six_lock_take(six[n], t, paths[t][n].want)
                          ELSE six[n]]
             /\ pc' = [pc EXCEPT ![t] = "_do"]
             /\ UNCHANGED <<trans, lrd>>
        ELSE /\ BodyRestart(t, trans[t], BCH_ERR_transaction_restart_relock,
                            _THIS_IP_)
             /\ UNCHANGED six
    /\ UNCHANGED <<paths, btree, journal_keys, journal, hist>>

(***************************************************************************)
(* The commit path                                                         *)
(***************************************************************************)
journal_res_put(j, n) == [j EXCEPT !.cur_u64s = @ - n]

\* steps 1-3: every target path holds intent at its leaf; the journal
\* reservation; the disk reservation
CommitStart(t) ==
    /\ UNCHANGED <<nestedVars, crashVars, extVars>>
    /\ pc[t] = "_do"
    /\ trans[t].updates # {}
    /\ \E disk_ok \in BOOLEAN :
        LET U == UpdateNodes(trans[t])
            needUp == {n \in U : t \notin six[n].intent}
            ok == \A n \in needUp : Holds(t, n) /\ six_trylock(six[n], t, "intent")
            need == Cardinality(trans[t].updates)
        IN
        IF ~ok
        THEN /\ BodyRestart(t, trans[t], BCH_ERR_transaction_restart_upgrade,
                            _THIS_IP_)
             /\ UNCHANGED <<six, paths, journal>>
        ELSE
         /\ six' = [n \in Nodes |->
                      IF n \in needUp
                      THEN six_lock_take(six_unlock(six[n], t), t, "intent")
                      ELSE six[n]]
         /\ paths' = [paths EXCEPT ![t] =
                        [n \in Nodes |->
                           IF n \in needUp
                           THEN [paths[t][n] EXCEPT !.want = "intent"]
                           ELSE paths[t][n]]]
         /\ IF journal.cur_u64s + need > JournalEntryKeys
            THEN /\ BodyRestart(t, trans[t],
                                BCH_ERR_transaction_restart_journal_reclaim,
                                _THIS_IP_)
                 /\ UNCHANGED journal
            ELSE IF ~disk_ok
            THEN /\ BodyRet(t, trans[t], -BCH_ERR_ENOSPC_disk_reservation)
                 /\ UNCHANGED journal
            ELSE /\ journal' = [journal EXCEPT !.cur_u64s = @ + need]
                 /\ trans' = [trans EXCEPT ![t].journal_res = journal.cur_seq]
                 /\ pc' = [pc EXCEPT ![t] = commit_next_step("validate_reserve")]
                 /\ UNCHANGED lrd
    /\ UNCHANGED <<btree, journal_keys, hist>>

\* step 4: the intent locks of the leaves involved become write locks
CommitUpgrade(t) ==
    /\ UNCHANGED <<nestedVars, crashVars, extVars>>
    /\ pc[t] = "upgrade"
    /\ LET U == UpdateNodes(trans[t])
           ok == \A n \in U : six_trylock(six[n], t, "write")
       IN
        IF ok
        THEN /\ six' = [n \in Nodes |->
                          IF n \in U THEN six_lock_take(six[n], t, "write")
                          ELSE six[n]]
             /\ pc' = [pc EXCEPT ![t] = commit_next_step("upgrade")]
             /\ UNCHANGED <<trans, lrd, journal>>
        ELSE /\ BodyRestart(t, [trans[t] EXCEPT !.journal_res = 0],
                            BCH_ERR_transaction_restart_upgrade, _THIS_IP_)
             /\ journal' = journal_res_put(journal, Cardinality(trans[t].updates))
             /\ UNCHANGED six
    /\ UNCHANGED <<paths, btree, journal_keys, hist>>

\* steps 5-7: the keys go into the leaves and into the reserved journal slot
CommitMutate(t) ==
    /\ UNCHANGED <<nestedVars, crashVars, extVars>>
    /\ pc[t] = "mutate_journal"
    /\ btree' = [n \in Nodes |->
                    btree[n] \cup {[t |-> t, run |-> u.run, node |-> n] :
                                     u \in {v \in trans[t].updates : v.node = n}}]
    /\ journal_keys' = journal_keys \cup
            {[seq |-> trans[t].journal_res,
              key |-> [t |-> t, run |-> u.run, node |-> u.node],
              commit_run |-> hist.body_run[t]] : u \in trans[t].updates}
    /\ journal' = [journal EXCEPT
                      !.cur_keys = @ + Cardinality(trans[t].updates)]
    /\ pc' = [pc EXCEPT ![t] = commit_next_step("mutate_journal")]
    /\ UNCHANGED <<trans, paths, lrd, six, hist>>

\* step 8: write locks are released, intent becomes read; commit returns 0
CommitUnlock(t) ==
    /\ UNCHANGED <<nestedVars, crashVars, extVars>>
    /\ pc[t] = "unlock"
    /\ LET U == UpdateNodes(trans[t]) IN
        /\ paths' = [paths EXCEPT ![t] =
                        [n \in Nodes |->
                           IF n \in U /\ __path_has_node(paths[t][n], n)
                           THEN [paths[t][n] EXCEPT
                                    !.lock_seq = (@ + 1) % CounterMod,
                                    !.rec = hist.wrel[n] + 1,
                                    !.want = "read"]
                           ELSE paths[t][n]]]
        /\ six' = [n \in Nodes |->
                      IF n \in U
                      THEN six_lock_take(
                               six_unlock(six_unlock_write(six[n], t), t),
                               t, "read")
                      ELSE six[n]]
        /\ hist' = [hist EXCEPT !.wrel =
                        [n \in Nodes |-> IF n \in U THEN @[n] + 1 ELSE @[n]]]
    /\ BodyRet(t, [trans[t] EXCEPT !.updates = {}, !.journal_res = 0], 0)
    /\ UNCHANGED <<btree, journal_keys, journal>>

(***************************************************************************)
(* The journal: the open entry is closed and the next one opened           *)
(***************************************************************************)
JournalWrite ==
    /\ UNCHANGED <<nestedVars, crashVars, extVars>>
    /\ journal.cur_keys > 0
    /\ journal.cur_keys = journal.cur_u64s
    /\ journal' = [journal EXCEPT !.cur_seq = @ + 1, !.cur_u64s = 0,
                                  !.cur_keys = 0]
    /\ UNCHANGED <<pc, trans, paths, lrd, six, btree, journal_keys, hist>>

(***************************************************************************)
(* Journal, crash and replay.  A commit writes a key into each leaf it     *)
(* names; the value of a key is the number of the commit that wrote it.    *)
(***************************************************************************)
EmptyTree == [k \in Leaves |-> 0]

\* the btree_key entries of commit c, in key order
KeyEntries(c, K) ==
    (IF "a" \in K THEN <<[commit |-> c, key |-> "a"]>> ELSE <<>>) \o
    (IF "b" \in K THEN <<[commit |-> c, key |-> "b"]>> ELSE <<>>)

\* the checksum of a jset covers all of its entries
jset_csum(entries) == entries

\* jset_valid without the checksum
jset_valid_unchecked(js) == TRUE

\* the magic number of the jsets of this filesystem
jset_magic == "jset_magic"

\* the journal buckets the superblock declares
JournalBuckets == 1..MaxJsets

\* the bucket the jset with sequence number s is written to
journal_bucket(s) == ((s - 1) % MaxJsets) + 1

\* a jset read back is valid iff its magic matches, its checksum matches
\* what was read, it is not blacklisted and it lies in a journal bucket
jset_valid(js) ==
    /\ js.magic = jset_magic
    /\ js.csum = jset_csum(js.entries)
    /\ js.seq \notin fs.blacklist
    /\ js.bucket \in JournalBuckets

\* the jset with sequence number s is on the device and flushed
seq_flushed(s) == \E i \in 1..Len(jdisk) : jdisk[i].seq = s /\ jdisk[i].durable

\* fsync that returns without a journal flush
fsync_issues_flush_never(opts) == FALSE

\* sync and fsync issue journal flushes unless journal_flush_disabled is set
fsync_issues_flush(opts) == ~opts.journal_flush_disabled

\* a journal write that opens the next entry under the same seq
journal_write_same_seq(jd, jo, flush) ==
    [jdisk |-> Append([i \in 1..Len(jd) |->
                          [jd[i] EXCEPT !.durable = @ \/ flush]],
                      [seq |-> jo.seq, entries |-> jo.entries,
                       csum |-> jset_csum(jo.entries), durable |-> flush,
                       magic |-> jset_magic, bucket |-> journal_bucket(jo.seq)]),
     jopen |-> [seq |-> jo.seq, entries |-> <<>>]]

\* a flush write: the device cache is flushed, so every jset written before
\* is durable as well
journal_write(jd, jo, flush) ==
    [jdisk |-> Append([i \in 1..Len(jd) |->
                          [jd[i] EXCEPT !.durable = @ \/ flush]],
                      [seq |-> jo.seq, entries |-> jo.entries,
                       csum |-> jset_csum(jo.entries), durable |-> flush,
                       magic |-> jset_magic, bucket |-> journal_bucket(jo.seq)]),
     jopen |-> [seq |-> jo.seq + 1, entries |-> <<>>]]

\* flush the journal up to sequence number s
bch2_journal_flush_seq(jd, jo, s) ==
    IF jo.seq <= s /\ jo.entries # <<>>
    THEN journal_write(jd, jo, TRUE)
    ELSE [jdisk |-> [i \in 1..Len(jd) |-> [jd[i] EXCEPT !.durable = TRUE]],
          jopen |-> jo]

\* a replay that passes over an invalid jset and goes on
RECURSIVE ValidRunSkipping(_)
ValidRunSkipping(jd) ==
    IF jd = <<>>
    THEN <<>>
    ELSE (IF jset_valid(Head(jd)) THEN <<Head(jd)>> ELSE <<>>)
            \o ValidRunSkipping(Tail(jd))

\* the longest run of valid jsets from the start of the journal
RECURSIVE ValidRun(_)
ValidRun(jd) ==
    IF jd = <<>> \/ ~jset_valid(Head(jd))
    THEN <<>>
    ELSE <<Head(jd)>> \o ValidRun(Tail(jd))

RECURSIVE ApplyEntries(_, _)
ApplyEntries(tree, entries) ==
    IF entries = <<>>
    THEN tree
    ELSE ApplyEntries([tree EXCEPT ![Head(entries).key] = Head(entries).commit],
                      Tail(entries))

\* a replay that applies the newest jset first
RECURSIVE journal_replay_descending(_, _)
journal_replay_descending(tree, jd) ==
    IF jd = <<>>
    THEN tree
    ELSE ApplyEntries(journal_replay_descending(tree, Tail(jd)),
                      Head(jd).entries)

\* replay: the btree_key entries of the valid jsets, in ascending seq order
RECURSIVE journal_replay(_, _)
journal_replay(tree, jd) ==
    IF jd = <<>>
    THEN tree
    ELSE journal_replay(ApplyEntries(tree, Head(jd).entries), Tail(jd))

\* the filesystem: its state, options, tree in memory, the blacklist of
\* the superblock and the seqs of the jsets the last replay applied
NewFs(state, flush_disabled, blacklist) ==
    [state |-> state, journal_flush_disabled |-> flush_disabled,
     mem |-> EmptyTree, blacklist |-> blacklist, replayed |-> <<>>]

CrashOff ==
    /\ fs = NewFs("off", FALSE, {})
    /\ commits = <<>>
    /\ fsynced = {}
    /\ dtree = EmptyTree
    /\ jopen = [seq |-> 1, entries |-> <<>>]
    /\ jdisk = <<>>

\* a transaction commits updates to the keys K
Commit(K) ==
    /\ fs.state = "running"
    /\ Len(commits) < MaxCommits
    /\ LET c == Len(commits) + 1 IN
        /\ commits' = Append(commits, [keys |-> K, seq |-> jopen.seq])
        /\ fs' = [fs EXCEPT !.mem = [k \in Leaves |->
                                        IF k \in K THEN c ELSE @[k]]]
        /\ jopen' = [jopen EXCEPT !.entries = @ \o KeyEntries(c, K)]
    /\ UNCHANGED <<fsynced, dtree, jdisk, mainVars, nestedVars, extVars>>

\* the open entry is written to the device as a flush or a noflush jset
JournalWriteJset(flush) ==
    /\ fs.state = "running"
    /\ jopen.entries # <<>>
    /\ LET w == journal_write(jdisk, jopen, flush) IN
        /\ jdisk' = w.jdisk
        /\ jopen' = w.jopen
    /\ UNCHANGED <<fs, commits, fsynced, dtree, mainVars, nestedVars, extVars>>

\* fsync for commit c returns
Fsync(c) ==
    /\ fs.state = "running"
    /\ c \in 1..Len(commits)
    /\ c \notin fsynced
    /\ IF fsync_issues_flush(fs)
       THEN LET w == bch2_journal_flush_seq(jdisk, jopen, commits[c].seq) IN
             /\ jdisk' = w.jdisk
             /\ jopen' = w.jopen
       ELSE UNCHANGED <<jdisk, jopen>>
    /\ fsynced' = fsynced \cup {c}
    /\ UNCHANGED <<fs, commits, dtree, mainVars, nestedVars, extVars>>

\* a leaf is written to the device once the journal entry of its newest
\* key is flushed
BtreeNodeWrite(k) ==
    /\ fs.state = "running"
    /\ dtree[k] # fs.mem[k]
    /\ seq_flushed(commits[fs.mem[k]].seq)
    /\ dtree' = [dtree EXCEPT ![k] = fs.mem[k]]
    /\ UNCHANGED <<fs, commits, fsynced, jopen, jdisk, mainVars, nestedVars, extVars>>

\* the oldest jset is dropped once every key in it has reached its leaf
JournalReclaim ==
    /\ fs.state = "running"
    /\ jdisk # <<>>
    /\ Head(jdisk).durable
    /\ \A i \in 1..Len(Head(jdisk).entries) :
          dtree[Head(jdisk).entries[i].key] >= Head(jdisk).entries[i].commit
    /\ jdisk' = Tail(jdisk)
    /\ UNCHANGED <<fs, commits, fsynced, dtree, jopen, mainVars, nestedVars, extVars>>

\* what a crash may leave of the jsets: a flushed jset is whole, one that
\* was not flushed is whole or cut short with its checksum not matching
CrashFates ==
    {f \in [1..Len(jdisk) -> 0..(2 * MaxCommits)] :
        \A i \in 1..Len(jdisk) :
            /\ f[i] <= Len(jdisk[i].entries)
            /\ jdisk[i].durable => f[i] = Len(jdisk[i].entries)}

Crash ==
    /\ fs.state = "running"
    /\ \E f \in CrashFates :
          jdisk' = [i \in 1..Len(jdisk) |->
                      [jdisk[i] EXCEPT !.entries = SubSeq(@, 1, f[i])]]
    /\ fs' = [fs EXCEPT !.state = "crashed", !.mem = EmptyTree]
    /\ jopen' = [jopen EXCEPT !.entries = <<>>]
    /\ UNCHANGED <<commits, fsynced, dtree, mainVars, nestedVars, extVars>>

\* mount: the leaves are read and the journal is replayed over them; the
\* jsets from the first invalid one on are blacklisted
Replay ==
    /\ fs.state = "crashed"
    /\ LET run == ValidRun(jdisk) IN
        fs' = [fs EXCEPT
                 !.state = "mounted",
                 !.mem = journal_replay(dtree, run),
                 !.replayed = [i \in 1..Len(run) |-> run[i].seq],
                 !.blacklist = @ \cup {jdisk[i].seq :
                                         i \in (Len(run) + 1)..Len(jdisk)}]
    /\ UNCHANGED <<commits, fsynced, dtree, jopen, jdisk, mainVars, nestedVars, extVars>>

(***************************************************************************)
(* nested_lockrestart_do: a restart loop entered inside a transaction that *)
(* is already running                                                      *)
(***************************************************************************)
\* what the macro does with the result of its body: call begin and run the
\* body again, die in bch2_trans_verify_not_restarted, or return
nested_lockrestart_do(tr, _restart_count, _orig_restart_count, _ret2) ==
    IF bch2_err_matches(_ret2, BCH_ERR_transaction_restart)
    THEN [next |-> "begin", result |-> 0]
    ELSE IF _ret2 = 0 /\ trans_was_restarted(tr, _restart_count) # 0
    THEN [next |-> "panic", result |-> 0]
    ELSE [next |-> "return",
          result |-> IF _ret2 # 0
                     THEN _ret2
                     ELSE trans_was_restarted(tr, _orig_restart_count)]

NestedLocals0 ==
    [_restart_count |-> 0, _orig_restart_count |-> 0, _ret2 |-> 0,
     result |-> 0, begins |-> 0, body_restarts |-> 0]

NestedOff ==
    /\ npc = "off"
    /\ ntrans = NewTrans(0)
    /\ nlrd = NestedLocals0

\* the macro is entered: both counts are read from the transaction
NestedEnter ==
    /\ npc = "idle"
    /\ nlrd' = [NestedLocals0 EXCEPT
                   !._restart_count = ntrans.restart_count,
                   !._orig_restart_count = ntrans.restart_count]
    /\ npc' = "_do"
    /\ UNCHANGED <<ntrans, mainVars, crashVars, extVars>>

\* the outcomes of one run of the body
BodyOutcomes == {"ok", "error", "restart", "inner_nested", "inner_loop"}

\* one run of the body:
\*   ok            it returns 0
\*   error         it returns an error that is no restart
\*   restart       an operation of it called btree_trans_restart
\*   inner_nested  a nested_lockrestart_do inside it restarted, began again
\*                 and passed transaction_restart_nested up
\*   inner_loop    a lockrestart_do inside it restarted, began again and
\*                 returned 0
NestedBody(outcome) ==
    /\ npc = "_do"
    /\ LET r == btree_trans_restart_ip(ntrans,
                    BCH_ERR_transaction_restart_relock, _THIS_IP_)
           again == bch2_trans_begin(r.trans)
       IN
        CASE outcome = "ok" ->
                /\ nlrd' = [nlrd EXCEPT !._ret2 = 0]
                /\ UNCHANGED ntrans
          [] outcome = "error" ->
                /\ nlrd' = [nlrd EXCEPT
                              !._ret2 = -BCH_ERR_ENOENT_bkey_type_mismatch]
                /\ UNCHANGED ntrans
          [] outcome = "restart" ->
                /\ nlrd' = [nlrd EXCEPT !._ret2 = r.ret,
                                        !.body_restarts = @ + 1]
                /\ ntrans' = r.trans
          [] outcome = "inner_nested" ->
                /\ nlrd' = [nlrd EXCEPT
                              !._ret2 = -BCH_ERR_transaction_restart_nested,
                              !.body_restarts = @ + 1]
                /\ ntrans' = again
          [] outcome = "inner_loop" ->
                /\ nlrd' = [nlrd EXCEPT !._ret2 = 0]
                /\ ntrans' = again
    /\ npc' = "check"
    /\ UNCHANGED <<mainVars, crashVars, extVars>>

\* the body has returned _ret2
NestedCheck ==
    /\ npc = "check"
    /\ LET m == nested_lockrestart_do(ntrans, nlrd._restart_count,
                                      nlrd._orig_restart_count, nlrd._ret2)
       IN
        CASE m.next = "begin" ->
                /\ nlrd.begins < MaxNestedBegins
                /\ ntrans' = bch2_trans_begin(ntrans)
                /\ nlrd' = [nlrd EXCEPT
                              !._restart_count = ntrans'.restart_count,
                              !.begins = @ + 1]
                /\ npc' = "_do"
          [] m.next = "return" ->
                /\ nlrd' = [nlrd EXCEPT !.result = m.result]
                /\ npc' = "return"
                /\ UNCHANGED ntrans
          [] OTHER ->
                /\ npc' = m.next
                /\ UNCHANGED <<ntrans, nlrd>>
    /\ UNCHANGED <<mainVars, crashVars, extVars>>

\* the caller goes on and may enter the macro again
NestedReturn ==
    /\ npc = "return"
    /\ npc' = "idle"
    /\ nlrd' = NestedLocals0
    /\ UNCHANGED <<ntrans, mainVars, crashVars, extVars>>

(***************************************************************************)
(* The specifications                                                      *)
(***************************************************************************)
Init ==
    /\ MainInit
    /\ NestedOff
    /\ CrashOff
    /\ ExtOff({})

Next ==
    \/ \E t \in Trans : LrdBegin(t)
    \/ \E t \in Trans : LrdCheck(t)
    \/ \E t \in Trans, n \in Nodes : \E want \in LockModes(n) : LockNode(t, n, want)
    \/ \E t \in Trans, n \in Nodes : Update(t, n)
    \/ \E t \in Trans, ret \in {0, -BCH_ERR_ENOENT_bkey_type_mismatch} :
            BodyReturn(t, ret)
    \/ \E t \in Trans : TransUnlock(t)
    \/ \E t \in Trans : TransRelock(t)
    \/ \E t \in Trans : CommitStart(t)
    \/ \E t \in Trans : CommitUpgrade(t)
    \/ \E t \in Trans : CommitMutate(t)
    \/ \E t \in Trans : CommitUnlock(t)
    \/ JournalWrite

Spec == Init /\ [][Next]_vars

InitCrash ==
    /\ MainInit
    /\ NestedOff
    /\ ExtOff({})
    /\ \E o \in BOOLEAN : fs = NewFs("running", o, {})
    /\ commits = <<>>
    /\ fsynced = {}
    /\ dtree = EmptyTree
    /\ jopen = [seq |-> 1, entries |-> <<>>]
    /\ jdisk = <<>>

NextCrash ==
    \/ \E K \in (SUBSET Leaves) \ {{}} : Commit(K)
    \/ \E flush \in BOOLEAN : JournalWriteJset(flush)
    \/ \E c \in 1..MaxCommits : Fsync(c)
    \/ \E k \in Leaves : BtreeNodeWrite(k)
    \/ JournalReclaim
    \/ Crash
    \/ Replay

SpecCrash == InitCrash /\ [][NextCrash]_vars

\* what may be wrong with a jset found at mount
JsetDamage == {"none", "magic", "csum", "blacklisted", "bucket"}

\* the jset with sequence number s holding one key, damaged as said
FoundJset(s, k, damage) ==
    [seq |-> s,
     entries |-> <<[commit |-> s, key |-> k]>>,
     csum |-> IF damage = "csum" THEN <<>>
              ELSE jset_csum(<<[commit |-> s, key |-> k]>>),
     durable |-> TRUE,
     magic |-> IF damage = "magic" THEN "bset_magic" ELSE jset_magic,
     bucket |-> IF damage = "bucket" THEN 0 ELSE journal_bucket(s)]

\* a filesystem about to be mounted: jsets with seqs 1..n are on the
\* device, any of them damaged
InitReplay ==
    /\ MainInit
    /\ NestedOff
    /\ ExtOff({})
    /\ commits = <<>>
    /\ fsynced = {}
    /\ dtree = EmptyTree
    /\ jopen = [seq |-> 1, entries |-> <<>>]
    /\ \E n \in 1..MaxJsets :
        \E ks \in [1..n -> Leaves], ds \in [1..n -> JsetDamage] :
          /\ jdisk = [i \in 1..n |-> FoundJset(i, ks[i], ds[i])]
          /\ fs = NewFs("crashed", FALSE,
                        {i \in 1..n : ds[i] = "blacklisted"})

NextReplay == Replay

SpecReplay == InitReplay /\ [][NextReplay]_vars

InitNested ==
    /\ MainInit
    /\ CrashOff
    /\ ExtOff({})
    /\ npc = "idle"
    /\ ntrans \in {NewTrans(c) : c \in 0..(CounterMod - 1)}
    /\ nlrd = NestedLocals0

NextNested ==
    \/ NestedEnter
    \/ \E outcome \in BodyOutcomes : NestedBody(outcome)
    \/ NestedCheck
    \/ NestedReturn

SpecNested == InitNested /\ [][NextNested]_vars

(***************************************************************************)
(* Blocking with tree locks dropped: drop_locks_do, bch2_trans_mutex_lock  *)
(***************************************************************************)
ENOMEM == 12

\* what the expression handed to drop_locks_do may evaluate to
DoResults ==
    {0, -ENOMEM, -BCH_ERR_transaction_restart_journal_reclaim}

MxPcs ==
    {"idle", "locked", "blocked_mutex", "blocked_do", "critical", "resumed",
     "restart", "failed", "done"}

MxThread0 == [pc |-> "idle", seen |-> 0, ret |-> 0, dropped |-> FALSE]

\* the mutant: the tree locks stay held
bch2_trans_unlock_keeps_locks(node, t) == node

\* every tree lock of t is released
bch2_trans_unlock(node, t) ==
    IF node.owner = t THEN [node EXCEPT !.owner = "none"] ELSE node

\* relocking succeeds when the node was not changed since it was unlocked
\* and nobody holds it
bch2_trans_relock_ok(node, seen) == node.owner = "none" /\ node.seq = seen

\* the path of t is traversed: the node is locked, its sequence number noted
MxTraverse(t) ==
    /\ mx.th[t].pc = "idle"
    /\ mx.node.owner = "none"
    /\ mx' = [mx EXCEPT !.node.owner = t,
                        !.th[t] = [pc |-> "locked", seen |-> mx.node.seq,
                                   ret |-> 0, dropped |-> FALSE]]
    /\ UNCHANGED <<mainVars, nestedVars, crashVars, jr, al, snap, it,
                 ext2Vars>>

\* mutex_trylock(lock) ? 0 : __bch2_trans_mutex_lock(trans, lock); the slow
\* path drops the tree locks and then sleeps in mutex_lock
bch2_trans_mutex_lock(t) ==
    /\ mx.th[t].pc = "locked"
    /\ mx' = IF mx.mutex = "none"
             THEN [mx EXCEPT !.mutex = t, !.th[t].pc = "critical",
                             !.th[t].ret = 0]
             ELSE [mx EXCEPT !.node = bch2_trans_unlock(mx.node, t),
                             !.th[t].pc = "blocked_mutex",
                             !.th[t].dropped = TRUE]
    /\ UNCHANGED <<mainVars, nestedVars, crashVars, jr, al, snap, it,
                 ext2Vars>>

\* mutex_lock returns; the transaction relocks, and on failure releases the
\* mutex and returns the restart
MutexLockReturns(t) ==
    /\ mx.th[t].pc = "blocked_mutex"
    /\ mx.mutex = "none"
    /\ mx' = IF bch2_trans_relock_ok(mx.node, mx.th[t].seen)
             THEN [mx EXCEPT !.mutex = t, !.node.owner = t,
                             !.th[t].pc = "critical", !.th[t].ret = 0]
             ELSE [mx EXCEPT !.th[t].pc = "restart",
                             !.th[t].ret = -BCH_ERR_transaction_restart_relock]
    /\ UNCHANGED <<mainVars, nestedVars, crashVars, jr, al, snap, it,
                 ext2Vars>>

\* drop_locks_do, first half: bch2_trans_unlock, then _do starts and waits
DropLocksDo(t) ==
    /\ mx.th[t].pc = "locked"
    /\ mx' = [mx EXCEPT !.node = bch2_trans_unlock(mx.node, t),
                        !.th[t].pc = "blocked_do",
                        !.th[t].dropped = TRUE]
    /\ UNCHANGED <<mainVars, nestedVars, crashVars, jr, al, snap, it,
                 ext2Vars>>

\* drop_locks_do, second half: (_do) ?: bch2_trans_relock(_trans)
DropLocksDoReturns(t, do_ret) ==
    /\ mx.th[t].pc = "blocked_do"
    /\ mx' = IF do_ret # 0
             THEN [mx EXCEPT !.th[t].ret = do_ret,
                             !.th[t].pc =
                                 IF bch2_err_matches(do_ret,
                                        BCH_ERR_transaction_restart)
                                 THEN "restart" ELSE "failed"]
             ELSE IF bch2_trans_relock_ok(mx.node, mx.th[t].seen)
             THEN [mx EXCEPT !.node.owner = t, !.th[t].pc = "resumed",
                             !.th[t].ret = 0]
             ELSE [mx EXCEPT !.th[t].pc = "restart",
                             !.th[t].ret = -BCH_ERR_transaction_restart_relock]
    /\ UNCHANGED <<mainVars, nestedVars, crashVars, jr, al, snap, it,
                 ext2Vars>>

MutexUnlock(t) ==
    /\ mx.th[t].pc = "critical"
    /\ mx' = [mx EXCEPT !.mutex = "none", !.th[t].pc = "resumed"]
    /\ UNCHANGED <<mainVars, nestedVars, crashVars, jr, al, snap, it,
                 ext2Vars>>

\* the transaction changes the node and finishes: the node's sequence
\* number moves on
MxFinish(t) ==
    /\ mx.th[t].pc = "resumed"
    /\ mx' = [mx EXCEPT !.node = [owner |-> "none", seq |-> mx.node.seq + 1],
                        !.th[t].pc = "done"]
    /\ UNCHANGED <<mainVars, nestedVars, crashVars, jr, al, snap, it,
                 ext2Vars>>

\* the retry loop begins the transaction again
MxRestart(t) ==
    /\ mx.th[t].pc = "restart"
    /\ mx' = [mx EXCEPT !.th[t].pc = "idle"]
    /\ UNCHANGED <<mainVars, nestedVars, crashVars, jr, al, snap, it,
                 ext2Vars>>

\* a thread that runs no transaction takes and releases the mutex
MxOther ==
    /\ mx.mutex \in {"none", "other"}
    /\ mx' = [mx EXCEPT !.mutex = IF mx.mutex = "none" THEN "other"
                                  ELSE "none"]
    /\ UNCHANGED <<mainVars, nestedVars, crashVars, jr, al, snap, it,
                 ext2Vars>>

InitMutex ==
    /\ MainInit
    /\ NestedOff
    /\ CrashOff
    /\ ExtOff({"mx"})
    /\ mx = [mutex |-> "none", node |-> [owner |-> "none", seq |-> 0],
             th |-> [t \in Trans |-> MxThread0]]

NextMutex ==
    \/ \E t \in Trans : MxTraverse(t)
    \/ \E t \in Trans : bch2_trans_mutex_lock(t)
    \/ \E t \in Trans : MutexLockReturns(t)
    \/ \E t \in Trans : DropLocksDo(t)
    \/ \E t \in Trans, do_ret \in DoResults : DropLocksDoReturns(t, do_ret)
    \/ \E t \in Trans : MutexUnlock(t)
    \/ \E t \in Trans : MxFinish(t)
    \/ \E t \in Trans : MxRestart(t)
    \/ MxOther

SpecMutex == InitMutex /\ [][NextMutex]_vars

(***************************************************************************)
(* Journal space: reservations against a ring of journal entries, reclaim  *)
(***************************************************************************)
JournalSlots == 3

\* sequence numbers are kept modulo JournalSeqs, one more than the ring has
\* slots, so that two entries that land in one slot never carry one seq
JournalSeqs == JournalSlots + 1

JrSlots == 0..(JournalSlots - 1)

JrFree == [used |-> FALSE, seq |-> 0, owner |-> "none", clean |-> TRUE]

\* the mutant: the reservation never looks at the space left
journal_space_unchecked(j) == TRUE

\* there is room for one more entry
journal_space_available(j) == j.count < JournalSlots

JrFull == jr.count = JournalSlots

JrHead(j) == (j.tail + j.count) % JournalSlots

\* a commit asks for a reservation; while there is none it gets the restart
\* and comes back through its retry loop
JournalResRequest(t) ==
    /\ jr.th[t] = "idle"
    /\ jr' = [jr EXCEPT !.th[t] = "waiting"]
    /\ UNCHANGED <<mainVars, nestedVars, crashVars, mx, al, snap, it,
                 ext2Vars>>

\* journal_reserve: the reservation is granted and the commit's keys are
\* written into the entry at the head of the ring
journal_reserve(t) ==
    /\ jr.th[t] = "waiting"
    /\ journal_space_available(jr)
    /\ LET e == [used |-> TRUE, seq |-> jr.seq, owner |-> t, clean |-> FALSE]
       IN jr' = [jr EXCEPT !.ring[JrHead(jr)] = e,
                           !.count = jr.count + 1,
                           !.seq = (jr.seq + 1) % JournalSeqs,
                           !.th[t] = "idle",
                           !.pinned = jr.pinned \cup
                               {[slot |-> JrHead(jr), seq |-> e.seq,
                                 owner |-> t]}]
    /\ UNCHANGED <<mainVars, nestedVars, crashVars, mx, al, snap, it,
                 ext2Vars>>

\* the tree nodes that hold the keys of the oldest entry are written: the
\* entry is no longer needed for replay
JournalPinFlush ==
    /\ jr.count > 0
    /\ jr.ring[jr.tail].clean = FALSE
    /\ jr' = [jr EXCEPT !.ring[jr.tail].clean = TRUE]
    /\ UNCHANGED <<mainVars, nestedVars, crashVars, mx, al, snap, it,
                 ext2Vars>>

\* reclaim frees the oldest entry once nothing pins it
JournalReclaimSpace ==
    /\ jr.count > 0
    /\ jr.ring[jr.tail].clean
    /\ jr' = [jr EXCEPT !.ring[jr.tail] = JrFree,
                        !.tail = (jr.tail + 1) % JournalSlots,
                        !.count = jr.count - 1,
                        !.pinned = {e \in jr.pinned : e.slot # jr.tail}]
    /\ UNCHANGED <<mainVars, nestedVars, crashVars, mx, al, snap, it,
                 ext2Vars>>

InitJournal ==
    /\ MainInit
    /\ NestedOff
    /\ CrashOff
    /\ ExtOff({"jr"})
    /\ jr = [ring |-> [i \in JrSlots |-> JrFree], tail |-> 0, count |-> 0,
             seq |-> 1, th |-> [t \in Trans |-> "idle"], pinned |-> {}]

NextJournal ==
    \/ \E t \in Trans : JournalResRequest(t)
    \/ \E t \in Trans : journal_reserve(t)
    \/ JournalPinFlush
    \/ JournalReclaimSpace

\* reclaim and the node writes it waits for run in the background; a
\* commit that keeps retrying is not passed over for ever
JournalFairness ==
    /\ WF_vars(JournalPinFlush)
    /\ WF_vars(JournalReclaimSpace)
    /\ \A t \in Trans : SF_vars(journal_reserve(t))

SpecJournal == InitJournal /\ [][NextJournal]_vars /\ JournalFairness

(***************************************************************************)
(* Bucket reuse: bch_alloc_v4.journal_seq_nonempty / journal_seq_empty     *)
(***************************************************************************)
MaxJournalSeq == 4

Buckets == {"b1", "b2"}

\* the fields of struct bch_alloc_v4 that decide about reuse
bch_alloc_v4_0 ==
    [data_type |-> "free", journal_seq_nonempty |-> 0, journal_seq_empty |-> 0]

\* the mutant: a free bucket is handed out whatever the journal has flushed
bucket_reusable_unflushed(a, flushed_seq) == a.data_type = "free"

\* a free bucket can be reused once journal_seq_empty is flushed; 0 means
\* no journal delay is needed
bucket_reusable(a, flushed_seq) ==
    /\ a.data_type = "free"
    /\ (a.journal_seq_empty = 0 \/ a.journal_seq_empty <= flushed_seq)

\* a noflush journal write closes the open entry
AlJournalWrite ==
    /\ al.seq < MaxJournalSeq
    /\ al' = [al EXCEPT !.seq = al.seq + 1]
    /\ UNCHANGED <<mainVars, nestedVars, crashVars, mx, jr, snap, it,
                 ext2Vars>>

\* a flush journal write: the open entry and all before it are on disk
AlJournalFlush ==
    /\ al.seq < MaxJournalSeq
    /\ al' = [al EXCEPT !.seq = al.seq + 1, !.flushed_seq = al.seq]
    /\ UNCHANGED <<mainVars, nestedVars, crashVars, mx, jr, snap, it,
                 ext2Vars>>

\* the allocator hands out a bucket for new data
BucketAllocate(b) ==
    /\ bucket_reusable(al.a[b], al.flushed_seq)
    /\ al' = [al EXCEPT !.a[b].data_type = "open"]
    /\ UNCHANGED <<mainVars, nestedVars, crashVars, mx, jr, snap, it,
                 ext2Vars>>

\* a commit in the open journal entry writes to the bucket: the transition
\* empty -> nonempty sets journal_seq_nonempty
BucketFill(b) ==
    /\ al.a[b].data_type = "open"
    /\ al' = [al EXCEPT !.a[b].data_type = "user",
                        !.a[b].journal_seq_nonempty = al.seq]
    /\ UNCHANGED <<mainVars, nestedVars, crashVars, mx, jr, snap, it,
                 ext2Vars>>

\* a commit in the open journal entry drops the last data of the bucket:
\* the transition nonempty -> empty sets journal_seq_empty, or clears both
\* seqs when the bucket was filled in the same journal entry
BucketEmptied(b) ==
    /\ al.a[b].data_type = "user"
    /\ al' = [al EXCEPT
                !.a[b] = IF al.a[b].journal_seq_nonempty = al.seq
                         THEN bch_alloc_v4_0
                         ELSE [al.a[b] EXCEPT !.data_type = "free",
                                              !.journal_seq_empty = al.seq],
                !.emptied_at[b] = al.seq]
    /\ UNCHANGED <<mainVars, nestedVars, crashVars, mx, jr, snap, it,
                 ext2Vars>>

InitAlloc ==
    /\ MainInit
    /\ NestedOff
    /\ CrashOff
    /\ ExtOff({"al"})
    /\ al = [seq |-> 1, flushed_seq |-> 0,
             a |-> [b \in Buckets |-> bch_alloc_v4_0],
             emptied_at |-> [b \in Buckets |-> 0]]

NextAlloc ==
    \/ AlJournalWrite
    \/ AlJournalFlush
    \/ \E b \in Buckets : BucketAllocate(b)
    \/ \E b \in Buckets : BucketFill(b)
    \/ \E b \in Buckets : BucketEmptied(b)

SpecAlloc == InitAlloc /\ [][NextAlloc]_vars

(***************************************************************************)
(* Snapshot table: struct snapshot_t, ancestor lookups                     *)
(***************************************************************************)
MaxSnapshotId == 5

\* IS_ANCESTOR_BITMAP is 128; the model keeps a bitmap of this many bits
IsAncestorBitmap == 2

SnapshotIds == 1..MaxSnapshotId

snapshot_t0 ==
    [state |-> "empty", parent |-> 0, skip |-> <<0, 0, 0>>, depth |-> 0,
     children |-> <<0, 0>>, is_ancestor |-> {}]

\* the ancestors of id by parent links, id itself not among them
RECURSIVE SnapshotAncestors(_, _)
SnapshotAncestors(t, id) ==
    IF t[id].parent = 0 THEN {}
    ELSE {t[id].parent} \cup SnapshotAncestors(t, t[id].parent)

SnapshotDescendants(t, id) ==
    {d \in SnapshotIds : t[d].state = "live" /\ id \in SnapshotAncestors(t, d)}

\* the bits a complete bitmap of id holds: bit (ancestor - id - 1) for
\* the ancestors within IsAncestorBitmap IDs
AncestorBits(t, id) ==
    {a - id - 1 : a \in {x \in SnapshotAncestors(t, id) :
                            x - id - 1 < IsAncestorBitmap}}

\* the mutant: the highest skiplist entry is taken whatever the target
get_ancestor_below_overshoots(t, id, ancestor) == t[id].skip[3]

\* skip[] is sorted ascending: try [2] first, fall back to the parent
get_ancestor_below(t, id, ancestor) ==
    IF t[id].skip[3] <= ancestor THEN t[id].skip[3]
    ELSE IF t[id].skip[2] <= ancestor THEN t[id].skip[2]
    ELSE IF t[id].skip[1] <= ancestor THEN t[id].skip[1]
    ELSE t[id].parent

test_ancestor_bitmap(t, id, ancestor) == (ancestor - id - 1) \in t[id].is_ancestor

\* jump up the tree while the target is outside the bitmap of id
RECURSIVE snapshot_skip_up(_, _, _)
snapshot_skip_up(t, id, ancestor) ==
    IF id # 0 /\ id < ancestor - IsAncestorBitmap
    THEN snapshot_skip_up(t, get_ancestor_below(t, id, ancestor), ancestor)
    ELSE id

\* is ancestor an ancestor of id: equal IDs, else skiplist jumps until the
\* target is within the bitmap, then the bitmap
bch2_snapshot_is_ancestor(t, id, ancestor) ==
    IF id = ancestor THEN TRUE
    ELSE LET i == snapshot_skip_up(t, id, ancestor)
         IN IF i # 0 /\ i < ancestor
            THEN test_ancestor_bitmap(t, i, ancestor)
            ELSE i = ancestor

\* three ancestors, sorted ascending
SkipChoices(anc) ==
    {sk \in anc \X anc \X anc : sk[1] <= sk[2] /\ sk[2] <= sk[3]}

\* children[] is normalized: [0] >= [1]
NormalizeChildren(a, b) == IF a >= b THEN <<a, b>> ELSE <<b, a>>

\* a snapshot is taken of leaf p: p gets two children with new, lower IDs;
\* their bitmaps are written afterwards, bit by bit
SnapshotCreate(p, sk1, sk2) ==
    /\ snap.t[p].state = "live"
    /\ snap.t[p].children = <<0, 0>>
    /\ snap.next >= 2
    /\ LET c1 == snap.next
           c2 == snap.next - 1
           anc == {p} \cup SnapshotAncestors(snap.t, p)
           child(sk) == [state |-> "live", parent |-> p, skip |-> sk,
                         depth |-> snap.t[p].depth + 1,
                         children |-> <<0, 0>>, is_ancestor |-> {}]
       IN /\ sk1 \in SkipChoices(anc)
          /\ sk2 \in SkipChoices(anc)
          /\ snap' = [t |-> [snap.t EXCEPT ![p].children = <<c1, c2>>,
                                           ![c1] = child(sk1),
                                           ![c2] = child(sk2)],
                      next |-> snap.next - 2]
    /\ UNCHANGED <<mainVars, nestedVars, crashVars, mx, jr, al, it,
                 ext2Vars>>

\* the writer sets the next bit of the bitmap of id, nearest ancestor first
SetIsAncestorBit(id) ==
    /\ snap.t[id].state = "live"
    /\ LET missing == AncestorBits(snap.t, id) \ snap.t[id].is_ancestor
       IN /\ missing # {}
          /\ snap' = [snap EXCEPT !.t[id].is_ancestor =
                          @ \cup {CHOOSE b \in missing :
                                      \A c \in missing : b <= c}]
    /\ UNCHANGED <<mainVars, nestedVars, crashVars, mx, jr, al, it,
                 ext2Vars>>

\* a leaf snapshot is deleted
SnapshotDeleteLeaf(id) ==
    /\ snap.t[id].state = "live"
    /\ snap.t[id].children = <<0, 0>>
    /\ snap.t[id].parent # 0
    /\ LET p == snap.t[id].parent
           ch == snap.t[p].children
       IN snap' = [snap EXCEPT
                     !.t[id] = [snapshot_t0 EXCEPT !.state = "deleted"],
                     !.t[p].children =
                         NormalizeChildren(IF ch[1] = id THEN 0 ELSE ch[1],
                                           IF ch[2] = id THEN 0 ELSE ch[2])]
    /\ UNCHANGED <<mainVars, nestedVars, crashVars, mx, jr, al, it,
                 ext2Vars>>

\* an interior snapshot with one child is deleted: the child takes its
\* place, every descendant loses one level and the deleted ID
SnapshotDeleteInterior(n) ==
    /\ snap.t[n].state = "live"
    /\ snap.t[n].parent # 0
    /\ snap.t[n].children[1] # 0
    /\ snap.t[n].children[2] = 0
    /\ LET p == snap.t[n].parent
           c == snap.t[n].children[1]
           ch == snap.t[p].children
           desc == SnapshotDescendants(snap.t, n)
           t1 == [id \in SnapshotIds |->
                    IF id = n THEN [snapshot_t0 EXCEPT !.state = "deleted"]
                    ELSE IF id = p
                    THEN [snap.t[p] EXCEPT !.children =
                            NormalizeChildren(IF ch[1] = n THEN c ELSE ch[1],
                                              IF ch[2] = n THEN c ELSE ch[2])]
                    ELSE IF id \in desc
                    THEN [snap.t[id] EXCEPT
                            !.parent = IF id = c THEN p ELSE @,
                            !.depth = @ - 1,
                            !.skip = [i \in 1..3 |->
                                        IF @[i] = n THEN p ELSE @[i]]]
                    ELSE snap.t[id]]
       IN snap' = [snap EXCEPT
                     !.t = [id \in SnapshotIds |->
                              IF id \in desc
                              THEN [t1[id] EXCEPT !.is_ancestor =
                                        AncestorBits(t1, id)]
                              ELSE t1[id]]]
    /\ UNCHANGED <<mainVars, nestedVars, crashVars, mx, jr, al, it,
                 ext2Vars>>

InitSnapshots ==
    /\ MainInit
    /\ NestedOff
    /\ CrashOff
    /\ ExtOff({"snap"})
    /\ snap = [t |-> [id \in SnapshotIds |->
                        IF id = MaxSnapshotId
                        THEN [snapshot_t0 EXCEPT !.state = "live"]
                        ELSE snapshot_t0],
               next |-> MaxSnapshotId - 1]

NextSnapshots ==
    \/ \E p \in SnapshotIds :
          \E sk1 \in SkipChoices({p} \cup SnapshotAncestors(snap.t, p)),
             sk2 \in SkipChoices({p} \cup SnapshotAncestors(snap.t, p)) :
                SnapshotCreate(p, sk1, sk2)
    \/ \E id \in SnapshotIds : SetIsAncestorBit(id)
    \/ \E id \in SnapshotIds : SnapshotDeleteLeaf(id)
    \/ \E n \in SnapshotIds : SnapshotDeleteInterior(n)

SpecSnapshots == InitSnapshots /\ [][NextSnapshots]_vars

(***************************************************************************)
(* Iterators over a snapshotted tree: BTREE_ITER_filter_snapshots          *)
(***************************************************************************)
MaxIterOffset == 2

MaxIterKeys == 3

IterOffsets == 1..MaxIterOffset

\* the snapshot tree the keys live in: 4 is the root, 3 and 2 its children,
\* 1 the child of 3
IterSnapshotIds == 1..4

IterSnapshotParents == <<3, 4, 4, 0>>

IterSnapshotLinks ==
    [id \in IterSnapshotIds |->
        [snapshot_t0 EXCEPT !.state = "live",
                            !.parent = IterSnapshotParents[id]]]

IterSnapshotTable ==
    [id \in IterSnapshotIds |->
        LET anc == SnapshotAncestors(IterSnapshotLinks, id)
            top == IF anc = {} THEN 0
                   ELSE CHOOSE a \in anc : \A b \in anc : b <= a
        IN [IterSnapshotLinks[id] EXCEPT
              !.skip = <<IterSnapshotParents[id], top, top>>,
              !.depth = Cardinality(anc),
              !.is_ancestor = AncestorBits(IterSnapshotLinks, id)]]

\* what the tree knows about a btree ID
BtreeIds ==
    {[id |-> "extents", cached |-> FALSE, is_extents |-> TRUE,
      has_snapshots |-> TRUE, has_snapshot_field |-> TRUE],
     [id |-> "inodes", cached |-> TRUE, is_extents |-> FALSE,
      has_snapshots |-> TRUE, has_snapshot_field |-> TRUE]}

bch2_btree_iter_flags(journal_replay_not_finished, btree_id, level, flags) ==
    LET f1 == IF level # 0 \/ ~btree_id.cached
              THEN flags \ {"cached", "with_key_cache"}
              ELSE IF "cached" \notin flags
              THEN flags \cup {"with_key_cache"}
              ELSE flags
        f2 == IF f1 \cap {"all_snapshots", "not_extents"} = {}
                 /\ btree_id.is_extents
              THEN f1 \cup {"is_extents"} ELSE f1
        f3 == IF "snapshot_field" \notin f2 /\ ~btree_id.has_snapshot_field
              THEN f2 \ {"all_snapshots"} ELSE f2
        f4 == IF "all_snapshots" \notin f3 /\ btree_id.has_snapshots
              THEN f3 \cup {"filter_snapshots"} ELSE f3
    IN IF journal_replay_not_finished THEN f4 \cup {"with_journal"} ELSE f4

\* positions are compared by (offset, snapshot)
bpos_lt(p, q) ==
    p.offset < q.offset \/ (p.offset = q.offset /\ p.snapshot < q.snapshot)

bpos_successor(p) ==
    IF p.snapshot < 4 THEN [offset |-> p.offset, snapshot |-> p.snapshot + 1]
    ELSE [offset |-> p.offset + 1, snapshot |-> 0]

\* unless the iterator sees all snapshots its position is in its snapshot
bch2_btree_iter_set_pos(iter, new_pos) ==
    [iter EXCEPT !.pos = IF "all_snapshots" \notin iter.flags
                         THEN [new_pos EXCEPT !.snapshot = iter.snapshot]
                         ELSE new_pos]

\* the keys of the tree at or after pos
IterKeysFrom(keys, pos) == {k \in keys : ~bpos_lt(k.p, pos)}

IterFirstKey(ks) == CHOOSE k \in ks : \A l \in ks : ~bpos_lt(l.p, k.p)

\* the mutant: a key of any snapshot at or after the iterator's counts
snapshot_filter_by_id_only(snapshot, key_snapshot) == key_snapshot >= snapshot

\* the key is in the snapshot of the iterator or in an ancestor of it
snapshot_filter(snapshot, key_snapshot) ==
    /\ key_snapshot >= snapshot
    /\ bch2_snapshot_is_ancestor(IterSnapshotTable, snapshot, key_snapshot)

IterNoKey == [p |-> [offset |-> 0, snapshot |-> 0], type |-> "none"]

\* the mutant: a whiteout is passed like any other key that is skipped, the
\* scan goes on in the same position
RECURSIVE bch2_btree_iter_peek_through_whiteouts(_, _, _)
bch2_btree_iter_peek_through_whiteouts(keys, iter, search_key) ==
    LET ks == IterKeysFrom(keys, search_key)
    IN IF ks = {} THEN IterNoKey
       ELSE LET k == IterFirstKey(ks)
            IN IF \/ /\ "filter_snapshots" \in iter.flags
                     /\ ~snapshot_filter(iter.snapshot, k.p.snapshot)
                  \/ k.type = "whiteout"
               THEN bch2_btree_iter_peek_through_whiteouts(keys, iter,
                        bpos_successor(k.p))
               ELSE k

\* the scan of peek: skip keys of other snapshot lines; a whiteout in the
\* nearest ancestor hides the position
RECURSIVE bch2_btree_iter_peek(_, _, _)
bch2_btree_iter_peek(keys, iter, search_key) ==
    LET ks == IterKeysFrom(keys, search_key)
    IN IF ks = {} THEN IterNoKey
       ELSE LET k == IterFirstKey(ks)
                filter == "filter_snapshots" \in iter.flags
            IN IF filter /\ ~snapshot_filter(iter.snapshot, k.p.snapshot)
               THEN bch2_btree_iter_peek(keys, iter, bpos_successor(k.p))
               ELSE IF k.type = "whiteout"
               THEN bch2_btree_iter_peek(keys, iter,
                        IF filter
                        THEN [offset |-> k.p.offset + 1,
                              snapshot |-> iter.snapshot]
                        ELSE bpos_successor(k.p))
               ELSE k

IterPositions == [offset : IterOffsets, snapshot : IterSnapshotIds]

\* every tree of at most MaxIterKeys keys, one per position at most
IterTrees ==
    UNION {{{[p |-> q, type |-> ty[q]] : q \in ps} :
                ty \in [ps -> {"set", "whiteout"}]} :
           ps \in {qs \in SUBSET IterPositions :
                      Cardinality(qs) <= MaxIterKeys}}

\* bch2_trans_iter_init at the start of the tree
IterInit(btree_id, snapshot, flags) ==
    /\ it.pc = "none"
    /\ LET iter == [flags |-> bch2_btree_iter_flags(FALSE, btree_id, 0, flags),
                    snapshot |-> snapshot,
                    pos |-> [offset |-> 1, snapshot |-> snapshot]]
       IN it' = [it EXCEPT !.pc = "init",
                    !.iter = bch2_btree_iter_set_pos(iter,
                                 [offset |-> 1, snapshot |-> 0]),
                    !.from = 1]
    /\ UNCHANGED <<mainVars, nestedVars, crashVars, mx, jr, al, snap,
                 ext2Vars>>

\* peek returns the next key and leaves the iterator on it
IterPeek ==
    /\ it.pc \in {"init", "advanced"}
    /\ LET k == bch2_btree_iter_peek(it.keys, it.iter, it.iter.pos)
       IN it' = [it EXCEPT !.pc = IF k.type = "none" THEN "end" ELSE "peeked",
                           !.k = k,
                           !.from = it.iter.pos.offset,
                           !.iter = IF k.type = "none" THEN it.iter
                                    ELSE bch2_btree_iter_set_pos(it.iter, k.p)]
    /\ UNCHANGED <<mainVars, nestedVars, crashVars, mx, jr, al, snap,
                 ext2Vars>>

\* bch2_btree_iter_advance: to the next position, in the iterator's
\* snapshot unless it sees all snapshots
IterAdvance ==
    /\ it.pc = "peeked"
    /\ it' = [it EXCEPT
                !.pc = "advanced",
                !.iter = IF "all_snapshots" \in it.iter.flags
                         THEN bch2_btree_iter_set_pos(it.iter,
                                  bpos_successor(it.k.p))
                         ELSE bch2_btree_iter_set_pos(it.iter,
                                  [offset |-> it.k.p.offset + 1,
                                   snapshot |-> 0])]
    /\ UNCHANGED <<mainVars, nestedVars, crashVars, mx, jr, al, snap,
                 ext2Vars>>

InitIter ==
    /\ MainInit
    /\ NestedOff
    /\ CrashOff
    /\ ExtOff({"it"})
    /\ \E keys \in IterTrees :
          it = [pc |-> "none", keys |-> keys, k |-> IterNoKey, from |-> 1,
                iter |-> [flags |-> {}, snapshot |-> 0,
                          pos |-> [offset |-> 0, snapshot |-> 0]]]

NextIter ==
    \/ \E btree_id \in BtreeIds, snapshot \in IterSnapshotIds,
          flags \in SUBSET {"all_snapshots", "cached"} :
            IterInit(btree_id, snapshot, flags)
    \/ IterPeek
    \/ IterAdvance

SpecIter == InitIter /\ [][NextIter]_vars

(***************************************************************************)
(* Updates of a snapshotted tree between lookups                           *)
(***************************************************************************)
IterValues == {"K", "K'"}

\* a committed update at the position the lookups are made at: the key
\* replaces what the tree holds there; a delete inserts a tombstone
IterUpdate(o, snapshot, type, v) ==
    /\ it.pc = "none"
    /\ LET pos == [offset |-> o, snapshot |-> snapshot]
           new == [p |-> pos, type |-> type,
                   v |-> IF type = "whiteout" THEN "" ELSE v]
           keys == {k \in it.keys : k.p # pos} \cup {new}
       IN /\ Cardinality(keys) <= MaxIterKeys
          /\ new \notin it.keys
          /\ it' = [it EXCEPT !.keys = keys]
    /\ UNCHANGED <<mainVars, nestedVars, crashVars, mx, jr, al, snap>>
    /\ Ext2Keep({})

\* no iterator, an empty tree
IterIdle ==
    [pc |-> "none", keys |-> {}, k |-> IterNoKey, from |-> 1,
     iter |-> [flags |-> {}, snapshot |-> 0,
               pos |-> [offset |-> 0, snapshot |-> 0]]]

\* bch2_trans_iter_exit
IterExit ==
    /\ it.pc \in {"peeked", "end"}
    /\ it' = [IterIdle EXCEPT !.keys = it.keys]
    /\ UNCHANGED <<mainVars, nestedVars, crashVars, mx, jr, al, snap>>
    /\ Ext2Keep({})

InitSnapshotUpdates ==
    /\ MainInit
    /\ NestedOff
    /\ CrashOff
    /\ ExtOff({"it"})
    /\ it = IterIdle

NextSnapshotUpdates ==
    \/ \E snapshot \in IterSnapshotIds,
          type \in {"set", "whiteout"}, v \in IterValues :
            IterUpdate(1, snapshot, type, v)
    \/ \E btree_id \in BtreeIds, snapshot \in IterSnapshotIds :
            IterInit(btree_id, snapshot, {})
    \/ IterPeek
    \/ IterAdvance
    \/ IterExit

SpecSnapshotUpdates == InitSnapshotUpdates /\ [][NextSnapshotUpdates]_vars

(***************************************************************************)
(* Slot lookups: bch2_btree_path_peek_slot_exact, __bch2_bkey_get_iter     *)
(***************************************************************************)
\* one inode in snapshot 1 and in its parent, snapshot 2
SlotPositions == {[offset |-> 0, snapshot |-> sn] : sn \in {1, 2}}

SlotValues == {"mode=0644", "mode=0755"}

\* what a position of the tree holds: nothing, a key, or a tombstone
SlotKeys(p) ==
    {[p |-> p, type |-> "none", v |-> "NULL"],
     [p |-> p, type |-> "deleted", v |-> "NULL"]}
        \cup {[p |-> p, type |-> "inode_v3", v |-> v] : v \in SlotValues}

bkey_s_c_null == [p |-> [offset |-> 0, snapshot |-> 0], type |-> "null",
                  v |-> "NULL"]

\* bkey_init(u); u->p = pos; return (struct bkey_s_c) { u, NULL }
SlotHole(pos) == [p |-> pos, type |-> "deleted", v |-> "NULL"]

\* the key that snapshot pos.snapshot sees: its own, or its parent's
SlotCachedKey(keys, pos) ==
    IF keys[pos].type # "none" \/ pos.snapshot = 2 THEN keys[pos]
    ELSE keys[[pos EXCEPT !.snapshot = 2]]

\* the key the path points at; a cached path may return a key of a
\* different snapshot
bch2_btree_path_peek_slot(keys, path) ==
    LET k == IF path.cached THEN SlotCachedKey(keys, path.pos)
             ELSE keys[path.pos]
    IN IF k.type = "none" THEN SlotHole(path.pos) ELSE k

\* the mutant: the key is returned whatever its position
bch2_btree_path_peek_slot_inexact(keys, path) ==
    bch2_btree_path_peek_slot(keys, path)

bch2_btree_path_peek_slot_exact(keys, path) ==
    LET k == bch2_btree_path_peek_slot(keys, path)
    IN IF k.type # "null" /\ path.pos = k.p THEN k ELSE SlotHole(path.pos)

\* the iterator's slot peek: the traversal of the path may restart
bch2_btree_iter_peek_slot(keys, path, traverse_ret) ==
    IF traverse_ret # 0 THEN [err |-> traverse_ret, k |-> bkey_s_c_null]
    ELSE [err |-> 0, k |-> bch2_btree_path_peek_slot_exact(keys, path)]

\* k.k->type != type turns the result into ENOENT_bkey_type_mismatch
bch2_bkey_get_iter_typed(keys, path, traverse_ret, type) ==
    LET k == bch2_btree_iter_peek_slot(keys, path, traverse_ret)
    IN IF k.err = 0 /\ type # "any" /\ k.k.type # type
       THEN [err |-> -BCH_ERR_ENOENT_bkey_type_mismatch, k |-> bkey_s_c_null]
       ELSE k

\* a commit writes a key or a tombstone at a position
SlotUpdate(pos, new) ==
    /\ sl.pc = "idle"
    /\ new.type # "none"
    /\ sl.keys[pos] # new
    /\ sl' = [sl EXCEPT !.keys[pos] = new]
    /\ UNCHANGED <<mainVars, nestedVars, crashVars, ext1Vars>>
    /\ Ext2Keep({"sl"})

\* __bch2_bkey_get_iter with BTREE_ITER_slots
SlotLookup(pos, cached, traverse_ret, type) ==
    /\ sl.pc = "idle"
    /\ LET path == [pos |-> pos, cached |-> cached]
       IN sl' = [sl EXCEPT
                   !.pc = "looked_up",
                   !.path = path,
                   !.type = type,
                   !.ret = bch2_bkey_get_iter_typed(sl.keys, path,
                                                    traverse_ret, type)]
    /\ UNCHANGED <<mainVars, nestedVars, crashVars, ext1Vars>>
    /\ Ext2Keep({"sl"})

SlotDone ==
    /\ sl.pc = "looked_up"
    /\ sl' = [sl EXCEPT !.pc = "idle"]
    /\ UNCHANGED <<mainVars, nestedVars, crashVars, ext1Vars>>
    /\ Ext2Keep({"sl"})

InitSlots ==
    /\ MainInit
    /\ NestedOff
    /\ CrashOff
    /\ ExtOff({"sl"})
    /\ sl = [pc |-> "idle",
             keys |-> [p \in SlotPositions |->
                          [p |-> p, type |-> "none", v |-> "NULL"]],
             path |-> [pos |-> [offset |-> 0, snapshot |-> 1],
                       cached |-> FALSE],
             type |-> "any",
             ret |-> [err |-> 0, k |-> bkey_s_c_null]]

NextSlots ==
    \/ \E pos \in SlotPositions : \E new \in SlotKeys(pos) :
            SlotUpdate(pos, new)
    \/ \E pos \in SlotPositions, cached \in BOOLEAN,
          traverse_ret \in {0, -BCH_ERR_transaction_restart_relock},
          type \in {"any", "inode_v3"} :
            SlotLookup(pos, cached, traverse_ret, type)
    \/ SlotDone

SpecSlots == InitSlots /\ [][NextSlots]_vars

(***************************************************************************)
(* Path references: __btree_path_get, __btree_path_put, iterators, begin   *)
(***************************************************************************)
PathRefMod == 2 ^ PathRefBits
U8_MAX == PathRefMod - 1

PathIdx == 1..NrPaths
PathPositions == {1, 2}
PathIters == {"i1", "i2", "i3", "i4"}

PathFree == [allocated |-> FALSE, ref |-> 0, intent_ref |-> 0,
             preserve |-> FALSE, pos |-> 0, nodes_locked |-> FALSE,
             should_be_locked |-> FALSE]

\* __btree_path_get without the check of the count against U8_MAX
__btree_path_get_unchecked(tr, idx, intent) ==
    [tr EXCEPT !.paths[idx].ref = (@ + 1) % PathRefMod,
               !.paths[idx].intent_ref =
                    (@ + (IF intent THEN 1 ELSE 0)) % PathRefMod]

\* panic() when the count is at U8_MAX, else ref++, intent_ref += intent
__btree_path_get(tr, idx, intent) ==
    IF tr.paths[idx].ref = U8_MAX
    THEN [tr EXCEPT !.panic = TRUE]
    ELSE [tr EXCEPT !.paths[idx].ref = (@ + 1) % PathRefMod,
                    !.paths[idx].intent_ref =
                        (@ + (IF intent THEN 1 ELSE 0)) % PathRefMod]

\* __btree_path_put that leaves intent_ref as it was
__btree_path_put_keeps_intent(tr, idx, intent) ==
    [tr EXCEPT !.paths[idx].ref = (@ + PathRefMod - 1) % PathRefMod]

\* intent_ref -= intent; return --ref == 0 (the EBUG_ONs are compiled out)
__btree_path_put(tr, idx, intent) ==
    [tr EXCEPT !.paths[idx].ref = (@ + PathRefMod - 1) % PathRefMod,
               !.paths[idx].intent_ref =
                    (@ + PathRefMod - (IF intent THEN 1 ELSE 0)) % PathRefMod]

PathsAllocated(tr) == {i \in PathIdx : tr.paths[i].allocated}

PathsAt(tr, pos) == {i \in PathsAllocated(tr) : tr.paths[i].pos = pos}

Lowest(S) == CHOOSE i \in S : \A j \in S : i <= j

\* a free slot of the table is taken; a full table is fatal
btree_path_alloc_slot(tr, pos) ==
    LET free == PathIdx \ PathsAllocated(tr)
    IN IF free = {}
       THEN [tr |-> tr, idx |-> 0]
       ELSE [tr |-> [tr EXCEPT !.paths[Lowest(free)] =
                        [PathFree EXCEPT !.allocated = TRUE, !.pos = pos]],
             idx |-> Lowest(free)]

\* a path at the position is shared, else a new one is allocated; the
\* caller's reference is taken with __btree_path_get
bch2_path_get(tr, pos, intent, nopreserve) ==
    LET found == IF PathsAt(tr, pos) # {}
                 THEN [tr |-> tr, idx |-> Lowest(PathsAt(tr, pos))]
                 ELSE btree_path_alloc_slot(tr, pos)
    IN IF found.idx = 0
       THEN found
       ELSE LET got == __btree_path_get(found.tr, found.idx, intent)
            IN [tr |-> IF got.panic \/ nopreserve
                       THEN got
                       ELSE [got EXCEPT !.paths[found.idx].preserve = TRUE],
                idx |-> IF got.panic THEN 0 ELSE found.idx]

\* the reference is dropped; an unreferenced path stays in the table for
\* reuse unless another path stands at the same position
bch2_path_put(tr, idx, intent) ==
    LET put == __btree_path_put(tr, idx, intent)
    IN IF put.paths[idx].ref # 0
       THEN put
       ELSE IF PathsAt(put, put.paths[idx].pos) \ {idx} # {}
            THEN [put EXCEPT !.paths[idx] = PathFree]
            ELSE put

\* the shared or preserved path is left to its other users and a copy with
\* one reference is moved; the copy stands where the path stands and holds
\* the locks it holds, and is not marked preserve
__bch2_btree_path_make_mut(tr, idx, intent) ==
    LET put == __btree_path_put(tr, idx, intent)
        new == btree_path_alloc_slot(put, put.paths[idx].pos)
    IN IF new.idx = 0
       THEN new
       ELSE [tr |-> __btree_path_get(
                        [new.tr EXCEPT
                            !.paths[new.idx].nodes_locked =
                                tr.paths[idx].nodes_locked,
                            !.paths[new.idx].should_be_locked =
                                tr.paths[idx].should_be_locked],
                        new.idx, intent),
             idx |-> new.idx]

\* the mutant: the path is handed back as it is, whoever else holds it
bch2_btree_path_make_mut_in_place(tr, idx, intent) ==
    [tr |-> [tr EXCEPT !.paths[idx].should_be_locked = FALSE], idx |-> idx]

bch2_btree_path_make_mut(tr, idx, intent) ==
    LET mut == IF tr.paths[idx].ref > 1 \/ tr.paths[idx].preserve
               THEN __bch2_btree_path_make_mut(tr, idx, intent)
               ELSE [tr |-> tr, idx |-> idx]
    IN IF mut.idx = 0 THEN mut
       ELSE [tr |-> [mut.tr EXCEPT !.paths[mut.idx].should_be_locked = FALSE],
             idx |-> mut.idx]

\* begin that leaves the path table as it is
bch2_trans_begin_keeps_paths(tr) == tr

\* begin frees every path that is neither referenced nor marked preserve;
\* the path of an iterator that lives across begin, as in
\* for_each_btree_key_max_continue, stays
bch2_trans_begin_paths(tr) ==
    [tr EXCEPT !.paths =
        [i \in PathIdx |->
            IF tr.paths[i].allocated /\ tr.paths[i].ref = 0
                                     /\ ~tr.paths[i].preserve
            THEN PathFree ELSE tr.paths[i]]]

PathIterNone == [path |-> 0, intent |-> FALSE]

\* the iterators are locals of nested scopes: the one declared last is the
\* first to go; iter->flags & BTREE_ITER_intent is fixed where it is declared
PathIterOrder == <<"i1", "i2", "i3", "i4">>
PathIterIntent == [i \in PathIters |-> i \in {"i2", "i3"}]
PathItersLive == {i \in PathIters : tp.iters[i].path # 0}
PathIterNext(i) ==
    \E k \in 1..Len(PathIterOrder) :
        /\ PathIterOrder[k] = i
        /\ PathItersLive = {PathIterOrder[j] : j \in 1..(k - 1)}
PathIterLast(i) ==
    \E k \in 1..Len(PathIterOrder) :
        /\ PathIterOrder[k] = i
        /\ PathItersLive = {PathIterOrder[j] : j \in 1..k}

\* panic(): the program stops where it is
PathsPanic == [tp EXCEPT !.panic = TRUE, !.began = FALSE]

\* bch2_trans_iter_init_common: iter->path = bch2_path_get(...)
PathIterInit(i, pos, nopreserve) ==
    /\ ~tp.panic
    /\ PathIterNext(i)
    /\ LET got == bch2_path_get(tp, pos, PathIterIntent[i], nopreserve)
       IN tp' = IF got.idx = 0
                THEN PathsPanic
                ELSE [got.tr EXCEPT !.iters[i] = [path |-> got.idx,
                                                   intent |-> PathIterIntent[i]],
                                    !.began = FALSE]
    /\ UNCHANGED <<mainVars, nestedVars, crashVars, ext1Vars>>
    /\ Ext2Keep({"tp"})

\* the iterator's path is moved to another position
PathIterSetPos(i, pos) ==
    /\ ~tp.panic
    /\ tp.iters[i].path # 0
    /\ tp.paths[tp.iters[i].path].pos # pos
    /\ LET mut == bch2_btree_path_make_mut(tp, tp.iters[i].path,
                                           tp.iters[i].intent)
       IN tp' = IF mut.idx = 0 \/ mut.tr.panic
                THEN PathsPanic
                ELSE [mut.tr EXCEPT !.paths[mut.idx].pos = pos,
                                    !.paths[mut.idx].nodes_locked = FALSE,
                                    !.iters[i].path = mut.idx,
                                    !.began = FALSE]
    /\ UNCHANGED <<mainVars, nestedVars, crashVars, ext1Vars>>
    /\ Ext2Keep({"tp"})

\* bch2_trans_copy_iter into a new iterator, which shares src's path
PathIterCopy(dst, src) ==
    /\ ~tp.panic
    /\ PathIterNext(dst)
    /\ tp.iters[src].path # 0
    /\ LET got == __btree_path_get(tp, tp.iters[src].path,
                                   tp.iters[src].intent)
       IN tp' = IF got.panic
                THEN PathsPanic
                ELSE [got EXCEPT !.iters[dst] = tp.iters[src],
                                 !.began = FALSE]
    /\ UNCHANGED <<mainVars, nestedVars, crashVars, ext1Vars>>
    /\ Ext2Keep({"tp"})

\* bch2_trans_iter_exit: the iterator's reference is put
PathIterExit(i) ==
    /\ ~tp.panic
    /\ PathIterLast(i)
    /\ tp' = [bch2_path_put(tp, tp.iters[i].path, tp.iters[i].intent)
                EXCEPT !.iters[i] = PathIterNone, !.began = FALSE]
    /\ UNCHANGED <<mainVars, nestedVars, crashVars, ext1Vars>>
    /\ Ext2Keep({"tp"})

PathsBegin ==
    /\ ~tp.panic
    /\ tp' = [bch2_trans_begin_paths(tp) EXCEPT !.began = TRUE]
    /\ UNCHANGED <<mainVars, nestedVars, crashVars, ext1Vars>>
    /\ Ext2Keep({"tp"})

InitPaths ==
    /\ MainInit /\ NestedOff /\ CrashOff /\ ExtOff({"tp"})
    /\ tp = [paths |-> [i \in PathIdx |-> PathFree],
             iters |-> [i \in PathIters |-> PathIterNone],
             panic |-> FALSE,
             began |-> TRUE]

NextPaths ==
    \/ \E i \in PathIters, pos \in PathPositions, nopreserve \in BOOLEAN :
            PathIterInit(i, pos, nopreserve)
    \/ \E i \in PathIters, pos \in PathPositions : PathIterSetPos(i, pos)
    \/ \E dst \in PathIters, src \in PathIters : PathIterCopy(dst, src)
    \/ \E i \in PathIters : PathIterExit(i)
    \/ PathsBegin

SpecPaths == InitPaths /\ [][NextPaths]_vars

(***************************************************************************)
(* The arena: bch2_trans_kmalloc under lockrestart_do                      *)
(***************************************************************************)
roundup(x, y) == ((x + y - 1) \div y) * y

KmallocSizes == {1, 8, 9}

\* the arena is grown; memory handed out from the old one is gone with it,
\* and the transaction restarts
__bch2_trans_kmalloc(tr, size, ip) ==
    LET new_top == tr.mem_top + size
    IN IF new_top > ArenaMax
       THEN [trans |-> tr, p |-> -1, ret |-> -ENOMEM]
       ELSE IF tr.mem_bytes # 0
       THEN LET r == btree_trans_restart_ip(
                        [tr EXCEPT !.mem_bytes = new_top],
                        BCH_ERR_transaction_restart_mem_realloced, ip)
            IN [trans |-> r.trans, p |-> -1, ret |-> r.ret]
       ELSE [trans |-> [tr EXCEPT !.mem_bytes = new_top, !.mem_top = new_top],
             p |-> tr.mem_top, ret |-> 0]

\* bch2_trans_kmalloc_ip that leaves mem_top where it was
bch2_trans_kmalloc_ip_no_bump(tr, size0, ip) ==
    LET size == roundup(size0, 8)
    IN IF tr.mem_top + size <= tr.mem_bytes
       THEN [trans |-> tr, p |-> tr.mem_top, ret |-> 0]
       ELSE __bch2_trans_kmalloc(tr, size, ip)

bch2_trans_kmalloc_ip(tr, size0, ip) ==
    LET size == roundup(size0, 8)
    IN IF tr.mem_top + size <= tr.mem_bytes
       THEN [trans |-> [tr EXCEPT !.mem_top = @ + size],
             p |-> tr.mem_top, ret |-> 0]
       ELSE __bch2_trans_kmalloc(tr, size, ip)

bch2_trans_kmalloc(tr, size) == bch2_trans_kmalloc_ip(tr, size, _THIS_IP_)

\* begin: the arena is empty again
bch2_trans_begin_arena(tr) == [bch2_trans_begin(tr) EXCEPT !.mem_top = 0]

ArenaTrans(bytes) ==
    [restarted |-> 0, restart_count |-> Counter0, last_restarted_ip |-> "",
     updates |-> {}, sorted |-> <<>>, paths_sorted |-> TRUE,
     journal_res |-> 0, mem_top |-> 0, mem_bytes |-> bytes]

\* transaction_restart: _restart_count = bch2_trans_begin(_trans)
ArBegin ==
    /\ ar.pc = "transaction_restart"
    /\ LET tr == bch2_trans_begin_arena(ar.trans)
       IN ar' = [ar EXCEPT !.trans = tr,
                           !._restart_count = tr.restart_count,
                           !.begins = @ + 1,
                           !.handed = <<>>,
                           !.pc = "_do"]
    /\ UNCHANGED <<mainVars, nestedVars, crashVars, ext1Vars>>
    /\ Ext2Keep({"ar"})

\* the body takes scratch memory
ArKmalloc(size) ==
    /\ ar.pc = "_do"
    /\ LET r == bch2_trans_kmalloc(ar.trans, size)
       IN ar' = IF r.ret = 0
                THEN [ar EXCEPT !.trans = r.trans,
                                !.handed = Append(@, [p |-> r.p,
                                                      size |-> roundup(size, 8)])]
                ELSE [ar EXCEPT !.trans = r.trans,
                                !._ret2 = r.ret,
                                !.restarts = @ + (IF r.trans.restarted # 0
                                                  THEN 1 ELSE 0),
                                !.pc = "check"]
    /\ UNCHANGED <<mainVars, nestedVars, crashVars, ext1Vars>>
    /\ Ext2Keep({"ar"})

\* an operation of the body restarts
ArBodyRestart(err) ==
    /\ ar.pc = "_do"
    /\ ar.restarts < MaxRestarts
    /\ LET r == btree_trans_restart_ip(ar.trans, err, _THIS_IP_)
       IN ar' = [ar EXCEPT !.trans = r.trans, !._ret2 = r.ret,
                           !.restarts = @ + 1, !.pc = "check"]
    /\ UNCHANGED <<mainVars, nestedVars, crashVars, ext1Vars>>
    /\ Ext2Keep({"ar"})

\* the body ends with a commit: it succeeds, fails or restarts
ArCommit(err) ==
    /\ ar.pc = "_do"
    /\ bch2_err_matches(err, BCH_ERR_transaction_restart)
            => ar.restarts < MaxRestarts
    /\ LET r == IF bch2_err_matches(err, BCH_ERR_transaction_restart)
                THEN btree_trans_restart_ip(ar.trans, err, _THIS_IP_)
                ELSE [trans |-> ar.trans, ret |-> -err]
       IN ar' = [ar EXCEPT !.trans = r.trans, !._ret2 = r.ret,
                           !.commits = @ + 1,
                           !.restarts = @ + (IF r.trans.restarted # 0
                                             THEN 1 ELSE 0),
                           !.pc = "check"]
    /\ UNCHANGED <<mainVars, nestedVars, crashVars, ext1Vars>>
    /\ Ext2Keep({"ar"})

\* lockrestart_do looks at the result of the body
ArCheck ==
    /\ ar.pc = "check"
    /\ ar' = [ar EXCEPT !.pc = lockrestart_do(ar.trans, ar._restart_count,
                                              ar._ret2)]
    /\ UNCHANGED <<mainVars, nestedVars, crashVars, ext1Vars>>
    /\ Ext2Keep({"ar"})

InitArena ==
    /\ MainInit /\ NestedOff /\ CrashOff /\ ExtOff({"ar"})
    /\ \E bytes \in {0, ArenaBytes} :
        ar = [pc |-> "transaction_restart", trans |-> ArenaTrans(bytes),
              _restart_count |-> 0, _ret2 |-> 0, handed |-> <<>>,
              restarts |-> 0, begins |-> 0, commits |-> 0]

NextArena ==
    \/ ArBegin
    \/ \E size \in KmallocSizes : ArKmalloc(size)
    \/ \E err \in {BCH_ERR_transaction_restart_relock,
                   BCH_ERR_transaction_restart_would_deadlock} :
            ArBodyRestart(err)
    \/ \E err \in {0, BCH_ERR_transaction_restart_journal_reclaim,
                   BCH_ERR_ENOSPC_disk_reservation} : ArCommit(err)
    \/ ArCheck

SpecArena == InitArena /\ [][NextArena]_vars

(***************************************************************************)
(* The bound on a transaction's paths: btree_trans_too_many_iters          *)
(***************************************************************************)
\* trans->paths_allocated is a bitmap over the slots 0..nr_paths-1; slot 0
\* is never a path and its bit is always set
PathSlots == 0..(BTREE_ITER_MAX - 1)

bitmap_weight(bitmap, nr) == Cardinality({i \in bitmap : i < nr})

\* the restart that asks the caller to commit and start again
__bch2_btree_trans_too_many_iters(tr) ==
    -BCH_ERR_transaction_restart_too_many_iters

\* btree_trans_too_many_iters that never objects
btree_trans_too_many_iters_never(tr) == 0

btree_trans_too_many_iters(tr) ==
    IF bitmap_weight(tr.paths_allocated, tr.nr_paths)
            > BTREE_ITER_NORMAL_LIMIT - 8
    THEN __bch2_btree_trans_too_many_iters(tr)
    ELSE 0

\* a path takes the first free slot; a full table is fatal
TiPathAlloc ==
    /\ ti.pc = "run"
    /\ LET free == PathSlots \ ti.paths_allocated
       IN ti' = IF free = {}
                THEN [ti EXCEPT !.pc = "panic"]
                ELSE [ti EXCEPT !.paths_allocated = @ \cup {Lowest(free)}]
    /\ UNCHANGED <<mainVars, nestedVars, crashVars, ext1Vars>>
    /\ Ext2Keep({"ti"})

TiPathFree(idx) ==
    /\ ti.pc = "run"
    /\ idx # 0
    /\ idx \in ti.paths_allocated
    /\ ti' = [ti EXCEPT !.paths_allocated = @ \ {idx}]
    /\ UNCHANGED <<mainVars, nestedVars, crashVars, ext1Vars>>
    /\ Ext2Keep({"ti"})

\* the caller asks whether it may go on opening iterators
TiCheck ==
    /\ ti.pc = "run"
    /\ ti' = [ti EXCEPT !.ret = btree_trans_too_many_iters(ti),
                        !.pc = "checked"]
    /\ UNCHANGED <<mainVars, nestedVars, crashVars, ext1Vars>>
    /\ Ext2Keep({"ti"})

\* the answer was 0: the caller goes on
TiGoOn ==
    /\ ti.pc = "checked"
    /\ ti.ret = 0
    /\ ti' = [ti EXCEPT !.pc = "run"]
    /\ UNCHANGED <<mainVars, nestedVars, crashVars, ext1Vars>>
    /\ Ext2Keep({"ti"})

\* the answer was the restart: the caller commits, exits its iterators
\* above slot keep and begins again
TiRestart(keep) ==
    /\ ti.pc = "checked"
    /\ ti.ret # 0
    /\ ti' = [ti EXCEPT !.paths_allocated = {i \in @ : i <= keep},
                        !.ret = 0,
                        !.pc = "run"]
    /\ UNCHANGED <<mainVars, nestedVars, crashVars, ext1Vars>>
    /\ Ext2Keep({"ti"})

InitTooManyIters ==
    /\ MainInit /\ NestedOff /\ CrashOff /\ ExtOff({"ti"})
    /\ ti = [paths_allocated |-> {0}, nr_paths |-> BTREE_ITER_MAX,
             ret |-> 0, pc |-> "run"]

NextTooManyIters ==
    \/ TiPathAlloc
    \/ \E idx \in PathSlots : TiPathFree(idx)
    \/ TiCheck
    \/ TiGoOn
    \/ \E keep \in PathSlots : TiRestart(keep)

SpecTooManyIters == InitTooManyIters /\ [][NextTooManyIters]_vars

(***************************************************************************)
(* Emergency read-only: the process-wide flag and the commits after it     *)
(***************************************************************************)
EmThreads == {"t1", "t2"}

\* a commit that starts without looking at the flag
bch2_trans_commit_start_unchecked(c) == [pc |-> "reserve", ret |-> 0]

\* the first thing a commit does: with the flag set it returns at once
bch2_trans_commit_start(c) ==
    IF c.emergency_ro
    THEN [pc |-> "returned", ret |-> -BCH_ERR_emergency_readonly]
    ELSE [pc |-> "reserve", ret |-> 0]

EmCommitStart(t) ==
    /\ em.pc[t] = "idle"
    /\ LET r == bch2_trans_commit_start(em)
       IN em' = [em EXCEPT !.pc[t] = r.pc, !.ret[t] = r.ret,
                           !.after[t] = em.emergency_ro,
                           !.wrote[t] = FALSE]
    /\ UNCHANGED <<mainVars, nestedVars, crashVars, ext1Vars>>
    /\ Ext2Keep({"em"})

\* steps 1-4: locks and reservations; any of them may restart
EmCommitReserve(t, err) ==
    /\ em.pc[t] = "reserve"
    /\ em' = IF err = 0
             THEN [em EXCEPT !.pc[t] = "mutate"]
             ELSE [em EXCEPT !.pc[t] = "returned", !.ret[t] = -err]
    /\ UNCHANGED <<mainVars, nestedVars, crashVars, ext1Vars>>
    /\ Ext2Keep({"em"})

\* steps 5-7: the keys go into the node and into the journal
EmCommitMutate(t) ==
    /\ em.pc[t] = "mutate"
    /\ em.journal < MaxEmCommits
    /\ em' = [em EXCEPT !.pc[t] = "returned", !.ret[t] = 0,
                        !.node = @ + 1, !.journal = @ + 1,
                        !.wrote[t] = TRUE]
    /\ UNCHANGED <<mainVars, nestedVars, crashVars, ext1Vars>>
    /\ Ext2Keep({"em"})

\* steps 5-7 fail on fatal I/O: the filesystem goes emergency read-only
EmCommitFatal(t) ==
    /\ em.pc[t] = "mutate"
    /\ em' = [em EXCEPT !.pc[t] = "returned", !.ret[t] = -BCH_ERR_io_error,
                        !.emergency_ro = TRUE]
    /\ UNCHANGED <<mainVars, nestedVars, crashVars, ext1Vars>>
    /\ Ext2Keep({"em"})

\* a reader finds fatal corruption
EmFatalCorruption ==
    /\ ~em.emergency_ro
    /\ em' = [em EXCEPT !.emergency_ro = TRUE]
    /\ UNCHANGED <<mainVars, nestedVars, crashVars, ext1Vars>>
    /\ Ext2Keep({"em"})

\* the caller has the result and may commit again
EmCommitReturn(t) ==
    /\ em.pc[t] = "returned"
    /\ em' = [em EXCEPT !.pc[t] = "idle", !.ret[t] = 0,
                        !.after[t] = FALSE, !.wrote[t] = FALSE]
    /\ UNCHANGED <<mainVars, nestedVars, crashVars, ext1Vars>>
    /\ Ext2Keep({"em"})

InitEmergency ==
    /\ MainInit /\ NestedOff /\ CrashOff /\ ExtOff({"em"})
    /\ em = [emergency_ro |-> FALSE,
             pc |-> [t \in EmThreads |-> "idle"],
             ret |-> [t \in EmThreads |-> 0],
             after |-> [t \in EmThreads |-> FALSE],
             wrote |-> [t \in EmThreads |-> FALSE],
             node |-> 0, journal |-> 0]

NextEmergency ==
    \/ \E t \in EmThreads : EmCommitStart(t)
    \/ \E t \in EmThreads,
          err \in {0, BCH_ERR_transaction_restart_relock,
                   BCH_ERR_ENOSPC_disk_reservation} : EmCommitReserve(t, err)
    \/ \E t \in EmThreads : EmCommitMutate(t)
    \/ \E t \in EmThreads : EmCommitFatal(t)
    \/ EmFatalCorruption
    \/ \E t \in EmThreads : EmCommitReturn(t)

SpecEmergency == InitEmergency /\ [][NextEmergency]_vars

(***************************************************************************)
(* The journal buckets in the superblock: bch2_journal_buckets_to_sb       *)
(***************************************************************************)
SbByteMod == 2 ^ SbByteBits
SbIntMod == SbByteMod * SbByteMod

\* the bytes of an integer in the opposite order
swab(x) == (x % SbByteMod) * SbByteMod + (x \div SbByteMod)

\* superblock integers are little endian: a big endian cpu swaps the bytes
le64_to_cpu(x, big_endian) == IF big_endian THEN swab(x) ELSE x
cpu_to_le64(x, big_endian) == IF big_endian THEN swab(x) ELSE x

\* le64_add_cpu that adds to the bytes as they are stored
le64_add_cpu_raw(x, n, big_endian) == (x + n) % SbIntMod

le64_add_cpu(x, n, big_endian) ==
    cpu_to_le64((le64_to_cpu(x, big_endian) + n) % SbIntMod, big_endian)

\* for (i = 0; i + 1 < ja->nr; i++) if (buckets[i] + 1 != buckets[i + 1]) nr++
JournalRunCount(buckets) ==
    1 + Cardinality({i \in 1..(Len(buckets) - 1) :
                        (buckets[i] + 1) % SbIntMod # buckets[i + 1]})

\* for (i = 1; i < ja->nr; i++): the range at dst grows or a new one starts
RECURSIVE JournalRangesFrom(_, _, _, _)
JournalRangesFrom(buckets, i, d, big_endian) ==
    IF i > Len(buckets) THEN d
    ELSE IF buckets[i] = (buckets[i - 1] + 1) % SbIntMod
    THEN JournalRangesFrom(buckets, i + 1,
            [d EXCEPT ![Len(d)].nr = le64_add_cpu(@, 1, big_endian)],
            big_endian)
    ELSE JournalRangesFrom(buckets, i + 1,
            Append(d, [start |-> le64_to_cpu(buckets[i], big_endian),
                       nr |-> le64_to_cpu(1, big_endian)]),
            big_endian)

\* the journal fields of a superblock: which of them are there, and the
\* ranges of the journal_v2 field
SbNoFields == [journal |-> FALSE, journal_v2 |-> FALSE, d |-> <<>>]

\* bch2_journal_buckets_to_sb that starts a range at every bucket
bch2_journal_buckets_to_sb_no_runs(ja, disk_sb, big_endian, resized) ==
    IF ja.nr = 0
    THEN [disk_sb |-> SbNoFields, ret |-> 0, bug |-> FALSE]
    ELSE [disk_sb |-> [journal |-> FALSE, journal_v2 |-> TRUE,
                       d |-> [i \in 1..ja.nr |->
                                [start |-> le64_to_cpu(ja.buckets[i], big_endian),
                                 nr |-> le64_to_cpu(1, big_endian)]]],
          ret |-> 0, bug |-> FALSE]

\* resized: whether bch2_sb_resize_journal_v2 found room for the field
bch2_journal_buckets_to_sb(ja, disk_sb, big_endian, resized) ==
    IF ja.nr = 0
    THEN [disk_sb |-> SbNoFields, ret |-> 0, bug |-> FALSE]
    ELSE LET nr == JournalRunCount(ja.buckets)
         IN IF ~resized
            THEN [disk_sb |-> disk_sb, ret |-> -BCH_ERR_ENOSPC_sb_journal,
                  bug |-> FALSE]
            ELSE LET d == JournalRangesFrom(ja.buckets, 2,
                            <<[start |-> le64_to_cpu(ja.buckets[1], big_endian),
                               nr |-> le64_to_cpu(1, big_endian)]>>,
                            big_endian)
                 IN [disk_sb |-> [journal |-> FALSE, journal_v2 |-> TRUE,
                                  d |-> d],
                     ret |-> 0,
                     bug |-> Len(d) # nr]

\* the journal buckets of a device: distinct buckets in any order, none of
\* them bucket 0
RECURSIVE SbBucketSeqs(_)
SbBucketSeqs(n) ==
    IF n = 0 THEN {<<>>}
    ELSE LET shorter == SbBucketSeqs(n - 1)
         IN shorter \cup
            {Append(q, b) : q \in {r \in shorter : Len(r) = n - 1},
                            b \in 1..(SbBuckets - 1)}

SbJournalDevices ==
    {[buckets |-> q, nr |-> Len(q)] :
        q \in {r \in SbBucketSeqs(SbJournalBuckets) :
                \A i, j \in 1..Len(r) : i # j => r[i] # r[j]}}

\* the superblock as an older version left it: a v1 field, or none
SbOldFields ==
    {[journal |-> v1, journal_v2 |-> FALSE, d |-> <<>>] : v1 \in BOOLEAN}

\* the journal of the device grows by one bucket
SbAddJournalBucket(b) ==
    /\ sb.pc = "written"
    /\ sb.ja.nr < SbJournalBuckets
    /\ \A i \in 1..sb.ja.nr : sb.ja.buckets[i] # b
    /\ sb' = [sb EXCEPT !.ja = [buckets |-> Append(sb.ja.buckets, b),
                                nr |-> sb.ja.nr + 1],
                        !.pc = "dirty"]
    /\ UNCHANGED <<mainVars, nestedVars, crashVars, ext1Vars>>
    /\ Ext2Keep({"sb"})

SbJournalBucketsToSb(resized) ==
    /\ sb.pc = "dirty"
    /\ LET r == bch2_journal_buckets_to_sb(sb.ja, sb.disk_sb, sb.big_endian,
                                           resized)
       IN sb' = [sb EXCEPT !.disk_sb = r.disk_sb, !.ret = r.ret,
                           !.bug = r.bug,
                           !.had_v1 = sb.disk_sb.journal, !.pc = "written"]
    /\ UNCHANGED <<mainVars, nestedVars, crashVars, ext1Vars>>
    /\ Ext2Keep({"sb"})

InitSuperblock ==
    /\ MainInit /\ NestedOff /\ CrashOff /\ ExtOff({"sb"})
    /\ \E ja \in SbJournalDevices, old \in SbOldFields,
          big_endian \in BOOLEAN :
        sb = [ja |-> ja, disk_sb |-> old, had_v1 |-> FALSE,
              big_endian |-> big_endian, ret |-> 0, bug |-> FALSE,
              pc |-> "dirty"]

NextSuperblock ==
    \/ \E b \in 1..(SbBuckets - 1) : SbAddJournalBucket(b)
    \/ \E resized \in BOOLEAN : SbJournalBucketsToSb(resized)

SpecSuperblock == InitSuperblock /\ [][NextSuperblock]_vars

(***************************************************************************)
(* bcachefs fsck: cmd_fsck                                                 *)
(***************************************************************************)
\* the options of the getopt string "apynfo:rvh" and the long options; -o
\* comes with its argument
FsckOptions == {"a", "p", "y", "n", "f", "o verbose", "o bogus", "r", "R",
                "v", "h"}

RECURSIVE FsckCommandLines(_)
FsckCommandLines(n) ==
    IF n = 0 THEN {<<>>}
    ELSE LET shorter == FsckCommandLines(n - 1)
         IN shorter \cup
            {Append(q, o) : q \in {r \in shorter : Len(r) = n - 1},
                            o \in FsckOptions}

\* bch2_opts_empty() and the three opt_set before the options are read
FsckOpts0 ==
    [degraded |-> TRUE, fsck |-> TRUE, fix_errors |-> "FSCK_FIX_ask",
     nochanges |-> FALSE, ratelimit_errors |-> FALSE,
     reconstruct_alloc |-> FALSE, verbose |-> FALSE]

\* the switch over one option: the options afterwards, the value of ret,
\* and the exit status where the program leaves (-1: it goes on)
cmd_fsck_option(opts, opt) ==
    CASE opt \in {"a", "p"} ->
            [opts |-> [opts EXCEPT !.fix_errors = "FSCK_FIX_yes"],
             ret |-> 0, exit |-> -1]
      [] opt = "y" ->
            [opts |-> [opts EXCEPT !.fix_errors = "FSCK_FIX_no"],
             ret |-> 0, exit |-> -1]
      [] opt = "n" ->
            [opts |-> [opts EXCEPT !.nochanges = TRUE,
                                   !.fix_errors = "FSCK_FIX_no"],
             ret |-> 0, exit |-> -1]
      [] opt = "f" -> [opts |-> opts, ret |-> 0, exit |-> -1]
      [] opt = "o verbose" ->
            [opts |-> [opts EXCEPT !.verbose = TRUE], ret |-> 0, exit |-> -1]
      [] opt = "o bogus" -> [opts |-> opts, ret |-> -1, exit |-> -1]
      [] opt = "r" ->
            [opts |-> [opts EXCEPT !.ratelimit_errors = TRUE],
             ret |-> 0, exit |-> -1]
      [] opt = "R" ->
            [opts |-> [opts EXCEPT !.reconstruct_alloc = TRUE],
             ret |-> 0, exit |-> -1]
      [] opt = "v" ->
            [opts |-> [opts EXCEPT !.verbose = TRUE], ret |-> 0, exit |-> -1]
      [] opt = "h" -> [opts |-> opts, ret |-> 0, exit |-> 16]

\* while ((opt = getopt_long(...)) != -1) switch (opt)
FkGetopt ==
    /\ fk.pc = "getopt"
    /\ fk.argv # <<>>
    /\ LET r == cmd_fsck_option(fk.opts, Head(fk.argv))
       IN fk' = [fk EXCEPT !.opts = r.opts,
                           !.argv = Tail(@),
                           !.status = IF r.exit # -1 THEN r.exit ELSE r.ret,
                           !.pc = IF r.exit # -1 \/ r.ret # 0
                                  THEN "exit" ELSE "getopt"]
    /\ UNCHANGED <<mainVars, nestedVars, crashVars, ext1Vars>>
    /\ Ext2Keep({"fk"})

\* args_shift(optind); the devices are looked at
FkDevices(argc, mounted) ==
    /\ fk.pc = "getopt"
    /\ fk.argv = <<>>
    /\ fk' = IF argc = 0 \/ mounted = 2
             THEN [fk EXCEPT !.status = 8, !.pc = "exit"]
             ELSE [fk EXCEPT !.ret = IF mounted = 1 THEN 2 ELSE 0,
                             !.pc = "open"]
    /\ UNCHANGED <<mainVars, nestedVars, crashVars, ext1Vars>>
    /\ Ext2Keep({"fk"})

\* bch2_fs_open runs the check with the options: an error that is found is
\* repaired when fix_errors says yes, left when it says no, and asked about
\* otherwise
FkFsOpen(opened, errors, answer) ==
    /\ fk.pc = "open"
    /\ fk' = IF ~opened
             THEN [fk EXCEPT !.status = 8, !.pc = "exit"]
             ELSE LET ask == errors /\ fk.opts.fix_errors = "FSCK_FIX_ask"
                      fix == /\ errors
                             /\ ~fk.opts.nochanges
                             /\ \/ fk.opts.fix_errors = "FSCK_FIX_yes"
                                \/ ask /\ answer
                  IN [fk EXCEPT !.errors = errors, !.asked = ask,
                                !.fixed = fix,
                                !.status = fk.ret
                                    + (IF fix THEN 1 ELSE 0)
                                    + (IF errors /\ ~fix THEN 4 ELSE 0),
                                !.pc = "checked"]
    /\ UNCHANGED <<mainVars, nestedVars, crashVars, ext1Vars>>
    /\ Ext2Keep({"fk"})

\* bch2_fs_stop(c); return ret
FkReturn ==
    /\ fk.pc = "checked"
    /\ fk' = [fk EXCEPT !.pc = "exit"]
    /\ UNCHANGED <<mainVars, nestedVars, crashVars, ext1Vars>>
    /\ Ext2Keep({"fk"})

InitFsck ==
    /\ MainInit /\ NestedOff /\ CrashOff /\ ExtOff({"fk"})
    /\ \E line \in FsckCommandLines(MaxFsckOptions) :
        fk = [pc |-> "getopt", line |-> line, argv |-> line,
              opts |-> FsckOpts0, ret |-> 0, status |-> 0,
              errors |-> FALSE, asked |-> FALSE, fixed |-> FALSE]

NextFsck ==
    \/ FkGetopt
    \/ \E argc \in {0, 1}, mounted \in {0, 1, 2} : FkDevices(argc, mounted)
    \/ \E opened \in BOOLEAN, errors \in BOOLEAN, answer \in BOOLEAN :
            FkFsOpen(opened, errors, answer)
    \/ FkReturn

SpecFsck == InitFsck /\ [][NextFsck]_vars

(***************************************************************************)
(* FUSE: bcachefs_fuse_setattr, inode_update_times, rust_fuse_setattr      *)
(***************************************************************************)
EINTR == 4

FuseHandlers == {"bcachefs_fuse_setattr", "inode_update_times",
                 "rust_fuse_setattr"}

FUSE_SET_ATTR == {"MODE", "SIZE"}

\* what the inode holds and what the request brings
FuseInode0 == [bi_mode |-> "0644", bi_size |-> 0, bi_mtime |-> "then"]
FuseAttr == [st_mode |-> "0755", st_size |-> 1]
FuseNow == "now"

\* the results of bch2_inode_peek, bch2_inode_write and bch2_trans_commit
FuseErrors == {0, BCH_ERR_transaction_restart_relock,
               BCH_ERR_transaction_restart_journal_reclaim, ENOMEM}

\* the fields a handler changes between peek and write
fuse_apply(handler, inode_u, to_set) ==
    IF handler = "inode_update_times"
    THEN [inode_u EXCEPT !.bi_mtime = FuseNow]
    ELSE [inode_u EXCEPT
            !.bi_mode = IF "MODE" \in to_set THEN FuseAttr.st_mode ELSE @,
            !.bi_size = IF "SIZE" \in to_set THEN FuseAttr.st_size ELSE @]

\* the test after the err label: if (ret == -EINTR) goto retry in the
\* handlers written in C, commit_do in the shim
fuse_goto_retry(handler, tr, ret) ==
    IF handler = "rust_fuse_setattr"
    THEN lockrestart_do(tr, tr.restart_count, ret) = "transaction_restart"
    ELSE ret = -EINTR

\* retry: bch2_trans_begin(trans)
FuBegin ==
    /\ fu.pc = "retry"
    /\ fu' = [fu EXCEPT !.trans = bch2_trans_begin(@),
                        !.begins = @ + 1, !.pc = "peek"]
    /\ UNCHANGED <<mainVars, nestedVars, crashVars, ext1Vars>>
    /\ Ext2Keep({"fu"})

\* ret = bch2_inode_peek(...); if (ret) goto err
FuInodePeek(err) ==
    /\ fu.pc = "peek"
    /\ bch2_err_matches(err, BCH_ERR_transaction_restart)
            => fu.restarts < MaxRestarts
    /\ fu' = IF err = 0
             THEN [fu EXCEPT !.ret = 0, !.inode_u = fu.disk, !.pc = "write"]
             ELSE [fu EXCEPT
                    !.ret = -err,
                    !.trans = IF bch2_err_matches(err, BCH_ERR_transaction_restart)
                              THEN btree_trans_restart_ip(@, err, _THIS_IP_).trans
                              ELSE @,
                    !.restarts = @ + (IF bch2_err_matches(err,
                                            BCH_ERR_transaction_restart)
                                      THEN 1 ELSE 0),
                    !.pc = "err"]
    /\ UNCHANGED <<mainVars, nestedVars, crashVars, ext1Vars>>
    /\ Ext2Keep({"fu"})

\* the fields are set; ret = bch2_inode_write(...) ?: bch2_trans_commit(...)
FuWriteCommit(werr, cerr) ==
    /\ fu.pc = "write"
    /\ LET err == IF werr # 0 THEN werr ELSE cerr
           inode_u == fuse_apply(fu.handler, fu.inode_u, fu.to_set)
           restart == bch2_err_matches(err, BCH_ERR_transaction_restart)
       IN /\ restart => fu.restarts < MaxRestarts
          /\ fu' = [fu EXCEPT
                    !.ret = -err,
                    !.inode_u = inode_u,
                    !.disk = IF err = 0 THEN inode_u ELSE @,
                    !.trans = IF restart
                              THEN btree_trans_restart_ip(@, err, _THIS_IP_).trans
                              ELSE @,
                    !.restarts = @ + (IF restart THEN 1 ELSE 0),
                    !.pc = "err"]
    /\ UNCHANGED <<mainVars, nestedVars, crashVars, ext1Vars>>
    /\ Ext2Keep({"fu"})

\* err: bch2_trans_iter_exit; back to retry, or bch2_trans_put and the reply
FuErr ==
    /\ fu.pc = "err"
    /\ fu' = IF fuse_goto_retry(fu.handler, fu.trans, fu.ret)
             THEN [fu EXCEPT !.pc = "retry"]
             ELSE [fu EXCEPT !.reply = fu.ret, !.pc = "replied"]
    /\ UNCHANGED <<mainVars, nestedVars, crashVars, ext1Vars>>
    /\ Ext2Keep({"fu"})

InitFuse ==
    /\ MainInit /\ NestedOff /\ CrashOff /\ ExtOff({"fu"})
    /\ \E handler \in FuseHandlers, to_set \in SUBSET FUSE_SET_ATTR :
        fu = [handler |-> handler, to_set |-> to_set, pc |-> "retry",
              trans |-> NewTrans(Counter0), ret |-> 0, reply |-> 0,
              inode_u |-> FuseInode0, disk |-> FuseInode0,
              begins |-> 0, restarts |-> 0]

NextFuse ==
    \/ FuBegin
    \/ \E err \in FuseErrors : FuInodePeek(err)
    \/ \E werr \in FuseErrors, cerr \in FuseErrors : FuWriteCommit(werr, cerr)
    \/ FuErr

SpecFuse == InitFuse /\ [][NextFuse]_vars

(***************************************************************************)
(* Loops over keys: for_each_btree_key_max                                 *)
(***************************************************************************)
FePositions == 0..MaxFePos
SPOS_MAX == MaxFePos
\* no key: bkey_s_c_null
FeNull == -1

\* the first key at or after the iterator's position and not after end
FePeekMax(keys, pos, end) ==
    LET ks == {k \in keys : k >= pos /\ k <= end}
    IN IF ks = {} THEN FeNull ELSE Lowest(ks)

\* with BTREE_ITER_slots every position up to end has a key, of type
\* deleted where the tree holds none
bch2_btree_iter_peek_max_type(keys, iter, end, slots) ==
    IF ~slots THEN FePeekMax(keys, iter.pos, end)
    ELSE IF iter.pos > end THEN FeNull
    ELSE iter.pos

\* the positions a loop over [start, end] has to visit
FeRange(keys, start, end, slots) ==
    {k \in FePositions :
        /\ k >= start
        /\ k <= end
        /\ (slots \/ k \in keys)}

FeErrors == {-BCH_ERR_transaction_restart_relock,
             -BCH_ERR_transaction_restart_lock_contended, -ENOMEM}

\* for_each_btree_key_max up to the label of lockrestart_do: begin, then
\* the iterator is initialised at start
FeStart ==
    /\ fe.pc = "idle"
    /\ fe' = [fe EXCEPT !.pc = "transaction_restart",
                        !.trans = bch2_trans_begin(fe.trans),
                        !.iter = [pos |-> fe.start, live |-> TRUE],
                        !._ret3 = 0]
    /\ UNCHANGED <<mainVars, nestedVars, crashVars, ext1Vars>>
    /\ Ext2Keep({"fe"})

\* transaction_restart: _restart_count = bch2_trans_begin(_trans)
FeBegin ==
    /\ fe.pc = "transaction_restart"
    /\ LET tr == bch2_trans_begin(fe.trans)
       IN fe' = [fe EXCEPT !.pc = "peek", !.trans = tr,
                           !._restart_count = tr.restart_count,
                           !.began = TRUE]
    /\ UNCHANGED <<mainVars, nestedVars, crashVars, ext1Vars>>
    /\ Ext2Keep({"fe"})

\* what follows _ret2 = (_do): back to the label on a restart, else the
\* result is _ret3 and the loop goes on only with 0
FeAfterDo(f, tr, _ret2) ==
    LET to == lockrestart_do(tr, f._restart_count, _ret2)
    IN IF to = "transaction_restart"
       THEN [f EXCEPT !.pc = "transaction_restart", !.trans = tr,
                      !.restarts = @ + 1, !.began = FALSE]
       ELSE IF to = "panic"
       THEN [f EXCEPT !.pc = "panic", !.trans = tr]
       ELSE [f EXCEPT !.pc = IF _ret2 = 0 THEN "advance" ELSE "exit",
                      !.trans = tr,
                      !._ret3 = _ret2,
                      !.began = FALSE,
                      !.visited = IF _ret2 = 0 THEN Append(@, f.k) ELSE @,
                      !.failed = IF _ret2 = 0 THEN @ ELSE f.k]

\* the result of a step of the body or of the peek: an error that is a
\* restart was raised by btree_trans_restart
FeRaise(tr, err) ==
    IF bch2_err_matches(err, BCH_ERR_transaction_restart)
    THEN btree_trans_restart_ip(tr, -err, _THIS_IP_).trans
    ELSE tr

\* the peek inside lockrestart_do: a null key breaks out of the do-while
\* and leaves _ret3 as it was; an error key is the result of the body
FePeek(err) ==
    /\ fe.pc = "peek"
    /\ err \in FeErrors \cup {0}
    /\ bch2_err_matches(err, BCH_ERR_transaction_restart)
            => fe.restarts < MaxRestarts
    /\ LET k == bch2_btree_iter_peek_max_type(fe.keys, fe.iter, fe.end,
                                               fe.slots)
       IN fe' = IF err # 0
                THEN FeAfterDo([fe EXCEPT !.k = FeNull],
                               FeRaise(fe.trans, err), err)
                ELSE IF k = FeNull
                THEN [fe EXCEPT !.pc = "exit", !.k = FeNull,
                                !.began = FALSE]
                ELSE [fe EXCEPT !.pc = "body", !.k = k, !.iter.pos = k]
    /\ UNCHANGED <<mainVars, nestedVars, crashVars, ext1Vars>>
    /\ Ext2Keep({"fe"})

\* the body (_do) for the key the peek returned
FeBody(_ret2) ==
    /\ fe.pc = "body"
    /\ _ret2 \in FeErrors \cup {0}
    /\ bch2_err_matches(_ret2, BCH_ERR_transaction_restart)
            => fe.restarts < MaxRestarts
    /\ fe' = FeAfterDo([fe EXCEPT !.runs = Append(@, fe.k)],
                       FeRaise(fe.trans, _ret2), _ret2)
    /\ UNCHANGED <<mainVars, nestedVars, crashVars, ext1Vars>>
    /\ Ext2Keep({"fe"})

\* bch2_btree_iter_advance: false at the last position of the tree, else
\* the iterator moves to the successor of the key
bch2_btree_iter_advance(iter, k) ==
    [ret |-> k # SPOS_MAX,
     iter |-> IF k # SPOS_MAX THEN [iter EXCEPT !.pos = k + 1] ELSE iter]

\* while (!_ret3 && bch2_btree_iter_advance(...))
FeAdvance ==
    /\ fe.pc = "advance"
    /\ LET a == bch2_btree_iter_advance(fe.iter, fe.k)
       IN fe' = [fe EXCEPT !.pc = IF a.ret THEN "transaction_restart"
                                  ELSE "exit",
                           !.iter = a.iter]
    /\ UNCHANGED <<mainVars, nestedVars, crashVars, ext1Vars>>
    /\ Ext2Keep({"fe"})

\* bch2_trans_iter_exit, and the value of the loop is _ret3
FeExit ==
    /\ fe.pc = "exit"
    /\ fe' = [fe EXCEPT !.pc = "done", !.iter.live = FALSE,
                        !.ret = fe._ret3]
    /\ UNCHANGED <<mainVars, nestedVars, crashVars, ext1Vars>>
    /\ Ext2Keep({"fe"})

InitForEach ==
    /\ MainInit
    /\ NestedOff
    /\ CrashOff
    /\ ExtOff({"fe"})
    /\ \E keys \in SUBSET FePositions, start \in FePositions,
          end \in FePositions, slots \in BOOLEAN :
          fe = [pc |-> "idle", keys |-> keys, start |-> start, end |-> end,
                slots |-> slots, trans |-> NewTrans(Counter0),
                iter |-> [pos |-> 0, live |-> FALSE], k |-> FeNull,
                _restart_count |-> 0, _ret3 |-> 0, ret |-> 0,
                restarts |-> 0, began |-> FALSE, visited |-> <<>>,
                runs |-> <<>>, failed |-> FeNull]

NextForEach ==
    \/ FeStart
    \/ FeBegin
    \/ \E err \in FeErrors \cup {0} : FePeek(err)
    \/ \E _ret2 \in FeErrors \cup {0} : FeBody(_ret2)
    \/ FeAdvance
    \/ FeExit

SpecForEach == InitForEach /\ [][NextForEach]_vars

(***************************************************************************)
(* bcachefs migrate: the space of the old filesystem                       *)
(***************************************************************************)
\* the sector of the default superblock
BCH_SB_SECTOR == 8
MgSectorBytes == 2 ^ 9

round_up(x, m) == ((x + m - 1) \div m) * m
round_down(x, m) == (x \div m) * m
MgMax(a, b) == IF a > b THEN a ELSE b

sector_to_bucket(ca, s) == s \div ca.bucket_size
bucket_to_sector(ca, b) == b * ca.bucket_size

\* the do-while of mark_nouse_range from bucket b on
RECURSIVE MgMarkFrom(_, _, _)
MgMarkFrom(ca, b, sector_to) ==
    LET ca1 == [ca EXCEPT !.buckets_nouse = @ \cup {b}]
    IN IF bucket_to_sector(ca, b + 1) < sector_to
       THEN MgMarkFrom(ca1, b + 1, sector_to)
       ELSE ca1

\* the mutant: the bucket of sector_from and no other
mark_nouse_range_first_bucket(ca, sector_from, sector_to) ==
    [ca EXCEPT !.buckets_nouse = @ \cup {sector_to_bucket(ca, sector_from)}]

mark_nouse_range(ca, sector_from, sector_to) ==
    MgMarkFrom(ca, sector_to_bucket(ca, sector_from), sector_to)

\* hole idx of the ranges (idx from 0 to the number of ranges): from the
\* end of the range before it, or 0, to the start of the range after it,
\* or the end
hole_iter_next(r, idx, end) ==
    [start |-> IF idx > 0 THEN r[idx].end ELSE 0,
     end |-> IF idx < Len(r) THEN r[idx + 1].start ELSE end]

\* the loop of mark_unreserved_space from hole idx on; an empty hole
\* returns from the function
RECURSIVE MgMarkHoles(_, _, _)
MgMarkHoles(ca, extents, idx) ==
    IF idx > Len(extents) THEN [ca |-> ca, returned |-> FALSE]
    ELSE LET i == hole_iter_next(extents, idx,
                      bucket_to_sector(ca, ca.nbuckets) * MgSectorBytes)
         IN IF i.start = i.end THEN [ca |-> ca, returned |-> TRUE]
            ELSE MgMarkHoles(
                    mark_nouse_range(ca, i.start \div MgSectorBytes,
                        round_up(i.end, MgSectorBytes) \div MgSectorBytes),
                    extents, idx + 1)

mark_unreserved_space(ca, extents) ==
    LET holes == MgMarkHoles(ca, extents, 0)
        sb_size == 2 ^ ca.sb_max_size_bits
    IN IF holes.returned THEN holes.ca
       ELSE mark_nouse_range(holes.ca, 0, BCH_SB_SECTOR + sb_size * 2)

\* find_superblock_space: an extent with room for two superblocks at a
\* bucket boundary; 0 when there is none and migrate dies
find_superblock_space(extents, superblock_size, bucket_size) ==
    LET fits(i) ==
            LET start == round_up(MgMax(MgSbFloorSectors * MgSectorBytes,
                                        extents[i].start),
                                  bucket_size * MgSectorBytes)
                end == round_down(extents[i].end,
                                  bucket_size * MgSectorBytes)
            IN start + (superblock_size * MgSectorBytes) * 2 <= end
        ok == {i \in 1..Len(extents) : fits(i)}
    IN IF ok = {} THEN 0
       ELSE round_up(MgMax(MgSbFloorSectors * MgSectorBytes,
                           extents[Lowest(ok)].start),
                     bucket_size * MgSectorBytes) \div MgSectorBytes

\* the extents of the reserved file as reserve_new_fs_space returns them:
\* aligned to blocks, sorted, no two of them touching; the first block of
\* the device belongs to the old filesystem
MgBlockBytes == MgBlockSectors * MgSectorBytes
MgDeviceBytes == MgNBuckets * MgBucketSectors * MgSectorBytes
MgBoundaries == {b * MgBlockBytes : b \in 1..(MgDeviceBytes \div MgBlockBytes)}
MgExtents ==
    {<<[start |-> a, end |-> b]>> : a, b \in MgBoundaries} \cup
    {<<[start |-> a, end |-> b], [start |-> c, end |-> d]>> :
        a, b, c, d \in MgBoundaries}
MgExtentsOk(r) ==
    /\ \A i \in 1..Len(r) : r[i].start < r[i].end
    /\ \A i \in 1..(Len(r) - 1) : r[i].end < r[i + 1].start

\* migrate does not touch the layout of the superblock
MsNoLayout == [nr_superblocks |-> 0, sb_max_size_bits |-> 0, sb_offset |-> <<>>]

MgDev0 ==
    [bucket_size |-> MgBucketSectors, nbuckets |-> MgNBuckets,
     buckets_nouse |-> {}, sb_max_size_bits |-> 0]

\* migrate_fs up to bch2_fs_start: the unreserved space is marked
MgMarkUnreservedSpace ==
    /\ mg.pc = "opened"
    /\ mg' = [mg EXCEPT !.pc = "marked",
                        !.ca = mark_unreserved_space(mg.ca, mg.extents)]
    /\ UNCHANGED <<mainVars, nestedVars, crashVars, ext1Vars>>
    /\ Ext2Keep({"mg"})

MgFsStart ==
    /\ mg.pc = "marked"
    /\ mg' = [mg EXCEPT !.pc = "started"]
    /\ UNCHANGED <<mainVars, nestedVars, crashVars, ext1Vars>>
    /\ Ext2Keep({"mg"})

\* the allocator of the running filesystem hands out a bucket that is not
\* in buckets_nouse
MgBucketAlloc(b) ==
    /\ mg.pc = "started"
    /\ b \notin mg.ca.buckets_nouse
    /\ b \notin mg.allocated
    /\ mg' = [mg EXCEPT !.allocated = @ \cup {b}]
    /\ UNCHANGED <<mainVars, nestedVars, crashVars, ext1Vars>>
    /\ Ext2Keep({"mg"})

MgFsStop ==
    /\ mg.pc = "started"
    /\ mg' = [mg EXCEPT !.pc = "stopped"]
    /\ UNCHANGED <<mainVars, nestedVars, crashVars, ext1Vars>>
    /\ Ext2Keep({"mg"})

InitMigrate ==
    /\ MainInit
    /\ NestedOff
    /\ CrashOff
    /\ ExtOff({"mg"})
    /\ \E extents \in MgExtents :
          /\ MgExtentsOk(extents)
          /\ find_superblock_space(extents, 2 ^ MgDev0.sb_max_size_bits,
                                   MgBucketSectors) # 0
          /\ mg = [pc |-> "opened", ca |-> MgDev0, extents |-> extents,
                   allocated |-> {}, layout |-> MsNoLayout, sb_size |-> 0,
                   big_endian |-> FALSE, order |-> <<>>]

NextMigrate ==
    \/ MgMarkUnreservedSpace
    \/ MgFsStart
    \/ \E b \in 0..(MgNBuckets - 1) : MgBucketAlloc(b)
    \/ MgFsStop

SpecMigrate == InitMigrate /\ [][NextMigrate]_vars

(***************************************************************************)
(* bcachefs migrate-superblock: the superblock layout                      *)
(***************************************************************************)
\* sb_offset[i] of the source is sb_offset[i + 1] here; entries at and
\* after nr_superblocks are 0
LyPad(q) == q \o [i \in 1..(SbLayoutOffsets - Len(q)) |-> 0]

\* memmove(&sb_offset[2], &sb_offset[0], nr * sizeof(u64)) and the two
\* stores to sb_offset[0] and [1]: the array after them, and the indices
\* stored to that are not in the array
LyMove(layout, first, second) ==
    LET nr == layout.nr_superblocks
        stored == {0, 1} \cup {i + 2 : i \in 0..(nr - 1)}
        at(i) == IF i = 0 THEN first
                 ELSE IF i = 1 THEN second
                 ELSE IF i - 2 < nr THEN layout.sb_offset[i - 2 + 1]
                 ELSE layout.sb_offset[i + 1]
    IN [sb_offset |-> [i \in 1..SbLayoutOffsets |-> at(i - 1)],
        beyond |-> {i \in stored : i >= SbLayoutOffsets}]

add_default_sb_layout(layout, big_endian) ==
    LET sb_size == 2 ^ layout.sb_max_size_bits
        nr == layout.nr_superblocks
        die == [layout |-> layout, sb_size |-> sb_size, died |-> TRUE,
                beyond |-> {}]
    IN IF nr >= SbLayoutOffsets THEN die
       ELSE IF \E i \in 0..(nr - 1) :
                 LET o == le64_to_cpu(layout.sb_offset[i + 1], big_endian)
                 IN o = BCH_SB_SECTOR \/ o = BCH_SB_SECTOR + sb_size
       THEN die
       ELSE LET m == LyMove(layout, cpu_to_le64(BCH_SB_SECTOR, big_endian),
                            cpu_to_le64(BCH_SB_SECTOR + sb_size, big_endian))
            IN [layout |-> [layout EXCEPT !.nr_superblocks = nr + 2,
                                          !.sb_offset = m.sb_offset],
                sb_size |-> sb_size, died |-> FALSE, beyond |-> m.beyond]

\* the sectors a superblock of the layout can be at
LySectors == {BCH_SB_SECTOR, BCH_SB_SECTOR + 1, BCH_SB_SECTOR + 3,
              BCH_SB_SECTOR + 4, BCH_SB_SECTOR + 5}

\* the layouts a superblock read from disk can have: one superblock at
\* least, no sector twice
LyLayouts(big_endian) ==
    {[nr_superblocks |-> Len(q), sb_max_size_bits |-> 0,
      sb_offset |-> LyPad([i \in 1..Len(q) |->
                              cpu_to_le64(q[i], big_endian)])] :
        q \in {r \in UNION {[1..n -> LySectors] : n \in 1..SbLayoutOffsets} :
                  \A i, j \in 1..Len(r) : i # j => r[i] # r[j]}}

\* cmd_migrate_superblock calls it on the superblock it read
LyAddDefaultSbLayout ==
    /\ ly.pc = "read"
    /\ LET r == add_default_sb_layout(ly.layout, ly.big_endian)
       IN ly' = [ly EXCEPT !.pc = IF r.died THEN "died" ELSE "added",
                           !.before = ly.layout,
                           !.layout = r.layout,
                           !.beyond = r.beyond]
    /\ UNCHANGED <<mainVars, nestedVars, crashVars, ext1Vars>>
    /\ Ext2Keep({"ly"})

\* the start of the disk is zeroed
LyZeroStart ==
    /\ ly.pc = "added"
    /\ ly' = [ly EXCEPT !.pc = "zeroed"]
    /\ UNCHANGED <<mainVars, nestedVars, crashVars, ext1Vars>>
    /\ Ext2Keep({"ly"})

InitSbLayout ==
    /\ MainInit
    /\ NestedOff
    /\ CrashOff
    /\ ExtOff({"ly"})
    /\ \E big_endian \in BOOLEAN :
        \E layout \in LyLayouts(big_endian) :
          ly = [pc |-> "read", layout |-> layout, before |-> layout,
                big_endian |-> big_endian, beyond |-> {}]

NextSbLayout ==
    \/ LyAddDefaultSbLayout
    \/ LyZeroStart

SpecSbLayout == InitSbLayout /\ [][NextSbLayout]_vars

(***************************************************************************)
(* bcachefs migrate-superblock: cmd_migrate_superblock                     *)
(***************************************************************************)
\* the superblock is read at the offset given and the layout is tried on
\* the copy; the start of the disk is zeroed
MsReadSuper ==
    /\ mg.pc = "ms_start"
    /\ LET r == add_default_sb_layout(mg.layout, mg.big_endian)
       IN mg' = IF r.died \/ r.beyond # {}
                THEN [mg EXCEPT !.pc = "died"]
                ELSE [mg EXCEPT !.pc = "ms_zeroed", !.sb_size = r.sb_size,
                                !.order = Append(@, "zero")]
    /\ UNCHANGED <<mainVars, nestedVars, crashVars, ext1Vars>>
    /\ Ext2Keep({"mg"})

\* bch2_fs_open with nostart, bch2_buckets_nouse_alloc, and the buckets of
\* the default superblocks are taken from the allocator
MsOpenAndMark(ret) ==
    /\ mg.pc = "ms_zeroed"
    /\ mg' = IF ret # 0 THEN [mg EXCEPT !.pc = "died"]
             ELSE [mg EXCEPT
                     !.pc = "ms_marked",
                     !.ca = mark_nouse_range(mg.ca, 0,
                                BCH_SB_SECTOR + mg.sb_size * 2),
                     !.order = Append(@, "mark_nouse_range")]
    /\ UNCHANGED <<mainVars, nestedVars, crashVars, ext1Vars>>
    /\ Ext2Keep({"mg"})

\* bch2_fs_start; the filesystem is read-write from here on
MsFsStart(ret) ==
    /\ mg.pc = "ms_marked"
    /\ mg' = IF ret # 0 THEN [mg EXCEPT !.pc = "died"]
             ELSE IF 2 ^ mg.ca.sb_max_size_bits # mg.sb_size
             THEN [mg EXCEPT !.pc = "BUG"]
             ELSE [mg EXCEPT !.pc = "started",
                             !.order = Append(@, "bch2_fs_start")]
    /\ UNCHANGED <<mainVars, nestedVars, crashVars, ext1Vars>>
    /\ Ext2Keep({"mg"})

\* add_default_sb_layout on the superblock of the device, bch2_write_super
MsWriteSuper(ret) ==
    /\ mg.pc = "started"
    /\ mg.order[Len(mg.order)] = "bch2_fs_start"
    /\ LET r == add_default_sb_layout(mg.layout, mg.big_endian)
       IN mg' = IF r.died \/ ret # 0
                THEN [mg EXCEPT !.pc = "died"]
                ELSE [mg EXCEPT !.layout = r.layout,
                                !.order = Append(@, "bch2_write_super")]
    /\ UNCHANGED <<mainVars, nestedVars, crashVars, ext1Vars>>
    /\ Ext2Keep({"mg"})

\* the buckets of the superblocks of the layout are marked as superblock
\* buckets in the metadata of the filesystem
MsMarkDevSb(ret) ==
    /\ mg.pc = "started"
    /\ mg.order[Len(mg.order)] = "bch2_write_super"
    /\ mg' = IF ret # 0 THEN [mg EXCEPT !.pc = "died"]
             ELSE [mg EXCEPT !.order = Append(@, "bch2_trans_mark_dev_sb")]
    /\ UNCHANGED <<mainVars, nestedVars, crashVars, ext1Vars>>
    /\ Ext2Keep({"mg"})

MsFsStop ==
    /\ mg.pc = "started"
    /\ mg.order[Len(mg.order)] = "bch2_trans_mark_dev_sb"
    /\ mg' = [mg EXCEPT !.pc = "stopped"]
    /\ UNCHANGED <<mainVars, nestedVars, crashVars, ext1Vars>>
    /\ Ext2Keep({"mg"})

MsLayouts(big_endian) ==
    {l \in LyLayouts(big_endian) : l.nr_superblocks + 2 <= SbLayoutOffsets}

InitMigrateSuperblock ==
    /\ MainInit
    /\ NestedOff
    /\ CrashOff
    /\ ExtOff({"mg"})
    /\ \E big_endian \in BOOLEAN, bucket_size \in {2, MgBucketSectors},
          bits \in 0..2 :
        \E l \in MsLayouts(big_endian) :
          LET layout == [l EXCEPT !.sb_max_size_bits = bits]
          IN /\ BCH_SB_SECTOR + 2 * (2 ^ bits) <= bucket_size * MgNBuckets
             /\ mg = [pc |-> "ms_start",
                      ca |-> [MgDev0 EXCEPT
                                !.bucket_size = bucket_size,
                                !.sb_max_size_bits = bits],
                      extents |-> <<>>, allocated |-> {}, layout |-> layout,
                      sb_size |-> 0, big_endian |-> big_endian,
                      order |-> <<>>]

NextMigrateSuperblock ==
    \/ MsReadSuper
    \/ \E ret \in {0, -ENOMEM} : MsOpenAndMark(ret)
    \/ \E ret \in {0, -ENOMEM} : MsFsStart(ret)
    \/ \E ret \in {0, -BCH_ERR_io_error} : MsWriteSuper(ret)
    \/ \E ret \in {0, -ENOMEM} : MsMarkDevSb(ret)
    \/ \E b \in 0..(MgNBuckets - 1) : MgBucketAlloc(b)
    \/ MsFsStop

SpecMigrateSuperblock ==
    InitMigrateSuperblock /\ [][NextMigrateSuperblock]_vars

(***************************************************************************)
(* The validators of the journal fields of the superblock                  *)
(***************************************************************************)
EINVAL == 22

\* the orders sort() can leave n entries in, given what it compares
JvSorted(q, key(_)) ==
    {[i \in 1..Len(q) |-> q[p[i]]] :
        p \in {f \in [1..Len(q) -> 1..Len(q)] :
                 /\ \A i, j \in 1..Len(q) : i # j => f[i] # f[j]
                 /\ \A i \in 1..(Len(q) - 1) :
                        key(q[f[i]]) <= key(q[f[i + 1]])}}

JvSelf(x) == x
JvStart(x) == x.start

\* bch2_sb_journal_validate on the buckets b as sort() left them
bch2_sb_journal_validate(b, first_bucket, nbuckets) ==
    LET nr == Len(b)
    IN IF b[1] = 0 THEN -EINVAL
       ELSE IF b[1] < first_bucket THEN -EINVAL
       ELSE IF b[nr] >= nbuckets THEN -EINVAL
       ELSE IF \E i \in 0..(nr - 2) : b[i + 1] = b[i + 2] THEN -EINVAL
       ELSE 0

\* b[i].end = b[i].start + le64_to_cpu(d[i].nr), in the width of a u64
JvRanges(d, big_endian) ==
    [i \in 1..Len(d) |->
        LET start == le64_to_cpu(d[i].start, big_endian)
        IN [start |-> start,
            end |-> (start + le64_to_cpu(d[i].nr, big_endian)) % SbIntMod]]

\* bch2_sb_journal_v2_validate on the ranges b as sort() left them
bch2_sb_journal_v2_validate(b, first_bucket, nbuckets) ==
    LET nr == Len(b)
    IN IF b[1].start = 0 THEN -EINVAL
       ELSE IF b[1].start < first_bucket THEN -EINVAL
       ELSE IF b[nr].end > nbuckets THEN -EINVAL
       ELSE IF \E i \in 0..(nr - 2) : b[i + 1].end > b[i + 2].start
       THEN -EINVAL
       ELSE 0

\* the validator of a v1 field: no entry is valid, a failed allocation is
\* -ENOMEM, else the buckets are read, sorted and checked
JvValidateV1(kmalloc_fails) ==
    /\ jv.pc = "read"
    /\ jv.kind = "journal"
    /\ LET nr == Len(jv.buckets)
           raw == [i \in 1..nr |-> le64_to_cpu(jv.buckets[i], jv.big_endian)]
       IN \E b \in IF nr = 0 THEN {<<>>} ELSE JvSorted(raw, JvSelf) :
            jv' = [jv EXCEPT
                     !.pc = "validated",
                     !.enomem = nr # 0 /\ kmalloc_fails,
                     !.ret = IF nr = 0 THEN 0
                             ELSE IF kmalloc_fails THEN -ENOMEM
                             ELSE bch2_sb_journal_validate(b,
                                      jv.first_bucket, jv.nbuckets)]
    /\ UNCHANGED <<mainVars, nestedVars, crashVars, ext1Vars>>
    /\ Ext2Keep({"jv"})

JvValidateV2(kmalloc_fails) ==
    /\ jv.pc = "read"
    /\ jv.kind = "journal_v2"
    /\ LET nr == Len(jv.d)
       IN \E b \in IF nr = 0 THEN {<<>>}
                   ELSE JvSorted(JvRanges(jv.d, jv.big_endian), JvStart) :
            jv' = [jv EXCEPT
                     !.pc = "validated",
                     !.enomem = nr # 0 /\ kmalloc_fails,
                     !.ret = IF nr = 0 THEN 0
                             ELSE IF kmalloc_fails THEN -ENOMEM
                             ELSE bch2_sb_journal_v2_validate(b,
                                      jv.first_bucket, jv.nbuckets)]
    /\ UNCHANGED <<mainVars, nestedVars, crashVars, ext1Vars>>
    /\ Ext2Keep({"jv"})

\* the numbers a field read from disk is made of: the low buckets, the
\* number of buckets of the device and the largest u64
JvBuckets == {0, 1, 2, 3, 4, SbIntMod - 1}
JvCounts == {0, 1, 2}

JvFields(big_endian) ==
    LET le(x) == cpu_to_le64(x, big_endian)
        v1 == UNION {[1..n -> {le(x) : x \in JvBuckets}] :
                        n \in 0..MaxJournalFieldEntries}
        v2 == UNION {[1..n -> {[start |-> le(x), nr |-> le(c)] :
                                  x \in JvBuckets, c \in JvCounts}] :
                        n \in 0..MaxJournalFieldEntries}
    IN {[kind |-> "journal", buckets |-> d, d |-> <<>>] : d \in v1} \cup
       {[kind |-> "journal_v2", buckets |-> <<>>, d |-> d] : d \in v2}

InitJournalValidate ==
    /\ MainInit
    /\ NestedOff
    /\ CrashOff
    /\ ExtOff({"jv"})
    /\ \E big_endian \in BOOLEAN, first_bucket \in 0..2, nbuckets \in 3..4 :
        \E f \in JvFields(big_endian) :
          jv = [pc |-> "read", kind |-> f.kind, buckets |-> f.buckets,
                d |-> f.d,
                big_endian |-> big_endian, first_bucket |-> first_bucket,
                nbuckets |-> nbuckets, ret |-> 0, enomem |-> FALSE]

NextJournalValidate ==
    \/ \E kmalloc_fails \in BOOLEAN : JvValidateV1(kmalloc_fails)
    \/ \E kmalloc_fails \in BOOLEAN : JvValidateV2(kmalloc_fails)

SpecJournalValidate == InitJournalValidate /\ [][NextJournalValidate]_vars

(***************************************************************************)
(* Completion of chained bios: bio_endio                                   *)
(***************************************************************************)
\* bio 0 is the parent, the others are chained to it; each is completed by
\* a thread of its own
BioChildren == 1..MaxBioChildren
Bios == {0} \cup BioChildren
BIO_CHAIN == "BIO_CHAIN"

\* the mutant: no bio is ever seen as chained
bio_flagged_never(bio, flag) == FALSE

bio_flagged(bio, flag) == flag \in bio.bi_flags

atomic_dec_and_test(v) == [v |-> v - 1, zero |-> v - 1 = 0]

\* bio_chain(bio, parent) before bio is submitted: bio completes into the
\* parent, which counts one more completion
BioChain(c) ==
    /\ bi.thread[0].pc = "idle"
    /\ ~bi.chained[c]
    /\ \A d \in BioChildren : d < c => bi.chained[d]
    /\ bi' = [bi EXCEPT
                !.chained[c] = TRUE,
                !.parent.bi_flags = @ \cup {BIO_CHAIN},
                !.parent.__bi_remaining = @ + 1]
    /\ UNCHANGED <<mainVars, nestedVars, crashVars, ext1Vars>>
    /\ Ext2Keep({"bi"})

\* a thread calls bio_endio for its bio
BioEndio(t, status) ==
    /\ bi.thread[t].pc = "idle"
    /\ t # 0 => bi.chained[t]
    /\ bi' = [bi EXCEPT !.thread[t] = [pc |-> "again", bio |-> t],
                        !.bi_status[t] = status,
                        !.endio_called = @ \cup {t}]
    /\ UNCHANGED <<mainVars, nestedVars, crashVars, ext1Vars>>
    /\ Ext2Keep({"bi"})

\* bio_remaining_done: a bio that is not chained to ends on this call; the
\* bios chained to the parent are not themselves parents
BioRemainingDoneFlag(t) ==
    /\ bi.thread[t].pc = "again"
    /\ LET cur == bi.thread[t].bio
           bio == IF cur = 0 THEN bi.parent
                  ELSE [bi_flags |-> {}, __bi_remaining |-> 1]
       IN bi' = [bi EXCEPT !.thread[t].pc =
                    IF ~bio_flagged(bio, BIO_CHAIN) THEN "end_io"
                    ELSE "bug_on"]
    /\ UNCHANGED <<mainVars, nestedVars, crashVars, ext1Vars>>
    /\ Ext2Keep({"bi"})

\* BUG_ON(atomic_read(&bio->__bi_remaining) <= 0)
BioBugOn(t) ==
    /\ bi.thread[t].pc = "bug_on"
    /\ bi' = [bi EXCEPT !.thread[t].pc =
                IF bi.parent.__bi_remaining <= 0 THEN "BUG" ELSE "dec"]
    /\ UNCHANGED <<mainVars, nestedVars, crashVars, ext1Vars>>
    /\ Ext2Keep({"bi"})

\* atomic_dec_and_test: the thread that brings the count to 0 goes on
BioDecAndTest(t) ==
    /\ bi.thread[t].pc = "dec"
    /\ LET r == atomic_dec_and_test(bi.parent.__bi_remaining)
       IN bi' = [bi EXCEPT !.parent.__bi_remaining = r.v,
                           !.thread[t].pc = IF r.zero THEN "clear"
                                            ELSE "done"]
    /\ UNCHANGED <<mainVars, nestedVars, crashVars, ext1Vars>>
    /\ Ext2Keep({"bi"})

BioClearFlag(t) ==
    /\ bi.thread[t].pc = "clear"
    /\ bi' = [bi EXCEPT !.parent.bi_flags = @ \ {BIO_CHAIN},
                        !.thread[t].pc = "end_io"]
    /\ UNCHANGED <<mainVars, nestedVars, crashVars, ext1Vars>>
    /\ Ext2Keep({"bi"})

\* the end of bio_endio: a chained bio hands its status to the parent, is
\* put, and the thread goes on with the parent; any other bio has its
\* bi_end_io called
BioEndIoCall(t) ==
    /\ bi.thread[t].pc = "end_io"
    /\ LET cur == bi.thread[t].bio
       IN bi' = IF cur # 0
                THEN [bi EXCEPT
                        !.bi_status[0] = IF @ = 0 THEN bi.bi_status[cur]
                                         ELSE @,
                        !.put = @ \cup {cur},
                        !.thread[t] = [pc |-> "again", bio |-> 0]]
                ELSE [bi EXCEPT
                        !.bi_end_io = Append(@, bi.endio_called),
                        !.thread[t].pc = "done"]
    /\ UNCHANGED <<mainVars, nestedVars, crashVars, ext1Vars>>
    /\ Ext2Keep({"bi"})

InitBio ==
    /\ MainInit
    /\ NestedOff
    /\ CrashOff
    /\ ExtOff({"bi"})
    /\ bi = [parent |-> [bi_flags |-> {}, __bi_remaining |-> 1],
             chained |-> [c \in BioChildren |-> FALSE],
             thread |-> [t \in Bios |-> [pc |-> "idle", bio |-> t]],
             bi_status |-> [t \in Bios |-> 0],
             endio_called |-> {}, put |-> {}, bi_end_io |-> <<>>]

NextBio ==
    \/ \E c \in BioChildren : BioChain(c)
    \/ \E t \in Bios, status \in {0, -BCH_ERR_io_error} : BioEndio(t, status)
    \/ \E t \in Bios : BioRemainingDoneFlag(t)
    \/ \E t \in Bios : BioBugOn(t)
    \/ \E t \in Bios : BioDecAndTest(t)
    \/ \E t \in Bios : BioClearFlag(t)
    \/ \E t \in Bios : BioEndIoCall(t)

SpecBio == InitBio /\ [][NextBio]_vars

(***************************************************************************)
(* Paths that are moved while others hold them: bch2_btree_path_make_mut   *)
(***************************************************************************)
\* the iterator's path is traversed: its nodes are locked and it is marked
\* should_be_locked
PathIterTraverse(i) ==
    /\ ~tp.panic
    /\ tp.iters[i].path # 0
    /\ ~tp.paths[tp.iters[i].path].should_be_locked
    /\ tp' = [tp EXCEPT !.paths[tp.iters[i].path].nodes_locked = TRUE,
                        !.paths[tp.iters[i].path].should_be_locked = TRUE,
                        !.began = FALSE]
    /\ UNCHANGED <<mainVars, nestedVars, crashVars, ext1Vars>>
    /\ Ext2Keep({"tp"})

\* up to three iterators of one transaction
PathMutIters == {"i1", "i2", "i3"}

NextMakeMut ==
    \/ \E i \in PathMutIters, pos \in PathPositions, nopreserve \in BOOLEAN :
            PathIterInit(i, pos, nopreserve)
    \/ \E i \in PathMutIters : PathIterTraverse(i)
    \/ \E i \in PathMutIters, pos \in PathPositions : PathIterSetPos(i, pos)
    \/ \E dst \in PathMutIters, src \in PathMutIters : PathIterCopy(dst, src)
    \/ \E i \in PathMutIters : PathIterExit(i)

SpecMakeMut == InitPaths /\ [][NextMakeMut]_vars

(***************************************************************************)
(* FUSE rename                                                             *)
(***************************************************************************)
ENOENT == 2
FrDirs == {"d1", "d2"}
FrNames == {"a", "b"}
FrInodes == {42, 43}
\* no dirent of that name
FrNone == 0

\* the rename transaction without overwrite: the dirent src_name of src_dir
\* is deleted and a dirent dst_name for the same inode is inserted in
\* dst_dir, in one commit
bch2_rename_trans(dirs, src_dir, dst_dir, src_name, dst_name) ==
    IF dirs[src_dir][src_name] = FrNone
    THEN [dirs |-> dirs, ret |-> -ENOENT]
    ELSE [dirs |-> [[dirs EXCEPT ![src_dir][src_name] = FrNone]
                        EXCEPT ![dst_dir][dst_name] = dirs[src_dir][src_name]],
          ret |-> 0]

\* the names as the handler hands them to the transaction
bcachefs_fuse_rename(src_dir, srcname, dst_dir, dstname) ==
    LET dst_name == srcname
        src_name == dstname
    IN [src_dir |-> src_dir, dst_dir |-> dst_dir,
        src_name |-> src_name, dst_name |-> dst_name]

rust_fuse_rename(src_dir, src_name, dst_dir, dst_name) ==
    LET src_qstr == src_name
        dst_qstr == dst_name
    IN [src_dir |-> src_dir, dst_dir |-> dst_dir,
        src_name |-> src_qstr, dst_name |-> dst_qstr]

FrHandlers == {"bcachefs_fuse_rename", "rust_fuse_rename"}

\* a rename request; renames onto an existing name are left out, the
\* handlers do not handle them
FrRename(handler, src_dir, srcname, dst_dir, dstname) ==
    /\ fr.pc = "idle"
    /\ LET args == IF handler = "rust_fuse_rename"
                   THEN rust_fuse_rename(src_dir, srcname, dst_dir, dstname)
                   ELSE bcachefs_fuse_rename(src_dir, srcname, dst_dir,
                                             dstname)
           r == bch2_rename_trans(fr.dirs, args.src_dir, args.dst_dir,
                                  args.src_name, args.dst_name)
       IN /\ fr.dirs[args.dst_dir][args.dst_name] = FrNone
          /\ fr' = [fr EXCEPT
                      !.pc = "replied",
                      !.dirs = r.dirs,
                      !.before = fr.dirs,
                      !.req = [handler |-> handler, src_dir |-> src_dir,
                               srcname |-> srcname, dst_dir |-> dst_dir,
                               dstname |-> dstname],
                      !.args = args,
                      !.ret = r.ret]
    /\ UNCHANGED <<mainVars, nestedVars, crashVars, ext1Vars>>
    /\ Ext2Keep({"fr"})

\* the next request
FrNext ==
    /\ fr.pc = "replied"
    /\ fr' = [fr EXCEPT !.pc = "idle"]
    /\ UNCHANGED <<mainVars, nestedVars, crashVars, ext1Vars>>
    /\ Ext2Keep({"fr"})

FrNoReq == [handler |-> "", src_dir |-> "", srcname |-> "", dst_dir |-> "",
            dstname |-> ""]
FrNoArgs == [src_dir |-> "", dst_dir |-> "", src_name |-> "", dst_name |-> ""]

InitFuseRename ==
    /\ MainInit
    /\ NestedOff
    /\ CrashOff
    /\ ExtOff({"fr"})
    /\ \E dirs \in [FrDirs -> [FrNames -> FrInodes \cup {FrNone}]] :
          /\ \A d1, d2 \in FrDirs, n1, n2 \in FrNames :
                (dirs[d1][n1] # FrNone /\ dirs[d1][n1] = dirs[d2][n2])
                    => (d1 = d2 /\ n1 = n2)
          /\ fr = [pc |-> "idle", dirs |-> dirs, before |-> dirs,
                   req |-> FrNoReq, args |-> FrNoArgs, ret |-> 0]

NextFuseRename ==
    \/ \E handler \in FrHandlers, src_dir \in FrDirs, srcname \in FrNames,
          dst_dir \in FrDirs, dstname \in FrNames :
            FrRename(handler, src_dir, srcname, dst_dir, dstname)
    \/ FrNext

SpecFuseRename == InitFuseRename /\ [][NextFuseRename]_vars

(***************************************************************************)
(* FUSE write: the aligned buffer and the bytes of the caller              *)
(***************************************************************************)
block_bytes == FwBlockSectors * FwSectorBytes

align_io(size, offset) ==
    LET start == round_down(offset, block_bytes)
        end == offset + size
        aend == round_up(end, block_bytes)
    IN [start |-> start, pad_start |-> offset - start, end |-> aend,
        pad_end |-> aend - end, size |-> aend - start]

align_fix_up_bytes(align, align_bytes) ==
    IF align_bytes > align.pad_start
    THEN LET bytes == align_bytes - align.pad_start
         IN IF bytes > align.pad_end THEN bytes - align.pad_end ELSE 0
    ELSE 0

\* bcachefs_fuse_write up to the write: the buffer is aligned and filled
FwRequest(size, offset) ==
    /\ fw.pc = "idle"
    /\ fw' = [fw EXCEPT !.pc = "aligned", !.size = size, !.offset = offset,
                        !.align = align_io(size, offset)]
    /\ UNCHANGED <<mainVars, nestedVars, crashVars, ext1Vars>>
    /\ Ext2Keep({"fw"})

\* write_aligned: *written_out is 0 unless the write ended without an error,
\* and then it is the sectors written, in bytes
FwWriteAligned(error, written) ==
    /\ fw.pc = "aligned"
    /\ written * FwSectorBytes <= fw.align.size
    /\ fw' = [fw EXCEPT !.pc = "written",
                        !.ret = error,
                        !.aligned_written = IF error = 0
                                            THEN written * FwSectorBytes
                                            ELSE 0]
    /\ UNCHANGED <<mainVars, nestedVars, crashVars, ext1Vars>>
    /\ Ext2Keep({"fw"})

\* the rest of the handler: the bytes of the caller, the times of the
\* inode, the reply
FwReply(times_ret) ==
    /\ fw.pc = "written"
    /\ LET written == align_fix_up_bytes(fw.align, fw.aligned_written)
           ret1 == IF written > 0 THEN 0 ELSE fw.ret
           ret2 == IF ret1 = 0 THEN times_ret ELSE ret1
       IN fw' = IF written > fw.size \/ (ret2 = 0 /\ written = 0)
                THEN [fw EXCEPT !.pc = "BUG", !.written = written]
                ELSE [fw EXCEPT !.pc = "replied", !.written = written,
                                !.ret = ret2,
                                !.reply = IF ret2 = 0 THEN written ELSE ret2]
    /\ UNCHANGED <<mainVars, nestedVars, crashVars, ext1Vars>>
    /\ Ext2Keep({"fw"})

InitFuseWrite ==
    /\ MainInit
    /\ NestedOff
    /\ CrashOff
    /\ ExtOff({"fw"})
    /\ fw = [pc |-> "idle", size |-> 0, offset |-> 0,
             align |-> align_io(0, 0), aligned_written |-> 0, written |-> 0,
             ret |-> 0, reply |-> 0]

NextFuseWrite ==
    \/ \E size \in 1..MaxFwBytes, offset \in 0..MaxFwBytes :
            FwRequest(size, offset)
    \/ \E error \in {0, -BCH_ERR_io_error},
          written \in 0..(MaxFwBytes + MaxFwBytes) :
            FwWriteAligned(error, written)
    \/ \E times_ret \in {0, -ENOMEM} : FwReply(times_ret)

SpecFuseWrite == InitFuseWrite /\ [][NextFuseWrite]_vars

(***************************************************************************)
(* bcachefs mount: parse_mount_options                                     *)
(***************************************************************************)
mount_opt_flags ==
    << [name |-> "rw", mask |-> 0],
       [name |-> "ro", mask |-> 2 ^ 0],
       [name |-> "nosuid", mask |-> 2 ^ 1],
       [name |-> "nodev", mask |-> 2 ^ 2],
       [name |-> "noexec", mask |-> 2 ^ 3],
       [name |-> "sync", mask |-> 2 ^ 4],
       [name |-> "remount", mask |-> 2 ^ 5],
       [name |-> "mand", mask |-> 2 ^ 6],
       [name |-> "dirsync", mask |-> 2 ^ 7],
       [name |-> "noatime", mask |-> 2 ^ 10],
       [name |-> "nodiratime", mask |-> 2 ^ 11],
       [name |-> "relatime", mask |-> 2 ^ 21],
       [name |-> "strictatime", mask |-> 2 ^ 24],
       [name |-> "lazytime", mask |-> 2 ^ 25] >>

flag_count == Len(mount_opt_flags)

\* a | b of two unsigned ints
RECURSIVE MoOr(_, _)
MoOr(a, b) ==
    IF a = 0 THEN b
    ELSE IF b = 0 THEN a
    ELSE 2 * MoOr(a \div 2, b \div 2) + (IF a % 2 = 1 \/ b % 2 = 1 THEN 1 ELSE 0)

\* the options a caller passes: mount flags, options of the filesystem and
\* the empty option of "a,,b"
MoOptions == {"ro", "noatime", "lazytime", "degraded", "discard", ""}

MoStrings ==
    UNION {[1..n -> MoOptions] : n \in 1..MaxMountOptions}

\* opts = orig = xstrdup(_opts); *mount_options = xmalloc(strlen(orig) + 1)
\* the string is held as the tokens strsep will hand out
MoStart(_opts) ==
    /\ mo.pc = "idle"
    /\ mo' = [pc |-> "strsep", _opts |-> _opts, opts |-> _opts, s |-> "",
              i |-> 0, flag |-> 0, remain |-> FALSE, mount_options |-> "",
              beyond |-> FALSE]
    /\ UNCHANGED <<mainVars, nestedVars, crashVars, ext1Vars>>
    /\ Ext2Keep({"mo"})

\* while ((s = strsep(&opts, ","))) { i = 0; ... } free(orig); return flag
MoStrsep ==
    /\ mo.pc = "strsep"
    /\ mo' = IF mo.opts = <<>>
             THEN [mo EXCEPT !.pc = "returned"]
             ELSE [mo EXCEPT !.pc = "search", !.s = Head(mo.opts),
                             !.opts = Tail(mo.opts), !.i = 0]
    /\ UNCHANGED <<mainVars, nestedVars, crashVars, ext1Vars>>
    /\ Ext2Keep({"mo"})

\* one round of the for (;;) with i inside the table: the only break is
\* the one of a match, and the option is copied when i reaches flag_count
MoSearch ==
    /\ mo.pc = "search"
    /\ mo.i < flag_count
    /\ mo' = IF mo.s = mount_opt_flags[mo.i + 1].name
             THEN [mo EXCEPT !.pc = "strsep",
                             !.flag = MoOr(mo.flag, mount_opt_flags[mo.i + 1].mask)]
             ELSE IF mo.i + 1 = flag_count
             THEN [mo EXCEPT !.i = mo.i + 1,
                             !.remain = TRUE,
                             !.mount_options =
                                 IF mo.remain
                                 THEN mo.mount_options \o "," \o mo.s
                                 ELSE mo.s]
             ELSE [mo EXCEPT !.i = mo.i + 1]
    /\ UNCHANGED <<mainVars, nestedVars, crashVars, ext1Vars>>
    /\ Ext2Keep({"mo"})

\* one round of the for (;;) with i at or past flag_count: the read of
\* mount_opt_flags[i] is behind the table; it faults, or what it finds
\* compares equal to s and its mask is or-ed in, or it compares unequal
MoSearchBeyond(outcome, mask) ==
    /\ mo.pc = "search"
    /\ mo.i >= flag_count
    /\ \/ /\ outcome = "fault"
          /\ mo' = [mo EXCEPT !.pc = "fault", !.beyond = TRUE]
       \/ /\ outcome = "equal"
          /\ mo' = [mo EXCEPT !.pc = "strsep", !.beyond = TRUE,
                              !.flag = MoOr(mo.flag, mask)]
       \/ /\ outcome = "unequal"
          /\ mo.i < flag_count + MaxBeyondReads
          /\ mo' = [mo EXCEPT !.i = mo.i + 1, !.beyond = TRUE]
    /\ UNCHANGED <<mainVars, nestedVars, crashVars, ext1Vars>>
    /\ Ext2Keep({"mo"})

InitMountOptions ==
    /\ MainInit
    /\ NestedOff
    /\ CrashOff
    /\ ExtOff({"mo"})
    /\ mo = [pc |-> "idle", _opts |-> <<>>, opts |-> <<>>, s |-> "", i |-> 0,
             flag |-> 0, remain |-> FALSE, mount_options |-> "",
             beyond |-> FALSE]

NextMountOptions ==
    \/ \E _opts \in MoStrings : MoStart(_opts)
    \/ MoStrsep
    \/ MoSearch
    \/ \E outcome \in {"fault", "equal", "unequal"}, mask \in {0, 2 ^ 30} :
            MoSearchBeyond(outcome, mask)

SpecMountOptions == InitMountOptions /\ [][NextMountOptions]_vars

(***************************************************************************)
(* Properties of the transaction engine                                    *)
(***************************************************************************)
KeysOfRun(t) ==
    {k \in UNION {btree[n] : n \in Nodes} : k.t = t /\ k.run = hist.body_run[t]}
        \cup {j.key : j \in {i \in journal_keys :
                                i.key.t = t /\ i.commit_run = hist.body_run[t]}}

\* the commit of t has just returned an error to the restart loop
CommitFailed(t) ==
    /\ pc[t] = "lrd_check"
    /\ abs(lrd[t]._ret2) \in CommitErrors

\* C1: a commit that returned an error (a restart or another failure) has
\* put no key into a tree node and none into the journal, holds no write
\* lock and no journal reservation: mutation only follows the reservations
\* and the write-lock upgrades
C1_FailedCommitLeavesNoTrace ==
    \A t \in Trans :
        CommitFailed(t) =>
            /\ KeysOfRun(t) = {}
            /\ trans[t].journal_res = 0
            /\ \A n \in Nodes : t \notin six[n].write

\* a commit failed at the upgrade to write: a reader sits on a leaf that
\* the transaction holds with intent
C1_Witness ==
    \E t \in Trans, u \in Trans, n \in Leaves :
        /\ CommitFailed(t)
        /\ lrd[t]._ret2 = -BCH_ERR_transaction_restart_upgrade
        /\ n \in UpdateNodes(trans[t])
        /\ t \in six[n].intent
        /\ u # t /\ u \in six[n].read

\* the node t waits for
WaitNode(t) == {n \in Nodes : paths[t][n].alloc /\ ~Holds(t, n)}

\* t waits for a lock that u holds
WaitsFor(t, u) ==
    /\ pc[t] = "lock_wait"
    /\ \E n \in WaitNode(t) :
          \/ u \in six[n].intent
          \/ u \in six[n].read /\ paths[t][n].want # "read"

C5_LockCompatibility ==
    \A n \in Nodes :
        /\ Cardinality(six[n].intent) <= 1
        /\ six[n].write \subseteq six[n].intent
        /\ six[n].write # {} => six[n].read \subseteq six[n].write

\* a write lock is held on one leaf while intent and read coexist on another
C5_Witness ==
    \E n \in Nodes, m \in Nodes :
        /\ six[n].write # {}
        /\ six[m].intent # {} /\ six[m].read # {} /\ six[m].write = {}

\* C6: an acquisition on a node that precedes, in tree order, a node the
\* transaction holds locked does not block and takes no lock: the operation
\* returns a restart code
C6_OutOfOrderRestarts ==
    [][\A t \in Trans, n \in Nodes :
          ( /\ ~paths[t][n].alloc
            /\ paths'[t][n].alloc
            /\ \E m \in Nodes : Holds(t, m) /\ TreeLess(n, m) )
          => /\ pc'[t] = "lrd_check"
             /\ bch2_err_matches(lrd'[t]._ret2, BCH_ERR_transaction_restart)
             /\ t \notin six'[n].read \cup six'[n].intent]_vars

\* an acquisition out of order was answered with would_deadlock
C6_Witness ==
    \E t \in Trans, n \in Nodes, m \in Nodes :
        /\ pc[t] = "lrd_check"
        /\ trans[t].restarted = BCH_ERR_transaction_restart_would_deadlock
        /\ paths[t][n].alloc /\ ~Holds(t, n)
        /\ Holds(t, m) /\ TreeLess(n, m)

C8_RestartDiscards ==
    /\ \A t \in Trans :
          pc[t] \in BodyPcs =>
            /\ trans[t].restarted = 0
            /\ lrd[t]._restart_count = trans[t].restart_count
            /\ \A u \in trans[t].updates : u.run = hist.body_run[t]
            /\ \A n \in Nodes :
                  /\ paths[t][n].alloc => paths[t][n].run = hist.body_run[t]
                  /\ Holds(t, n) => paths[t][n].alloc
    /\ \A j \in journal_keys : j.key.run = j.commit_run

\* a body that was restarted has committed in a later run
C8_Witness ==
    \E j \in journal_keys : j.commit_run >= 2

\* C9: what lockrestart_do returns is success or an error outside the
\* transaction_restart class
C9_NoRestartReturned ==
    \A t \in Trans :
        pc[t] = "return" =>
            /\ ~bch2_err_matches(lrd[t]._ret2, BCH_ERR_transaction_restart)
            /\ trans[t].restarted = 0

\* lockrestart_do returned after the body ran more than once
C9_Witness ==
    \E t \in Trans : pc[t] = "return" /\ hist.body_run[t] >= 2

\* the tree after the first p commits
RECURSIVE TreeAfter(_)
TreeAfter(p) ==
    IF p = 0
    THEN EmptyTree
    ELSE [k \in Leaves |->
            IF k \in commits[p].keys THEN p ELSE TreeAfter(p - 1)[k]]

\* C2: after a crash at any point and a remount the tree is the tree left
\* by a prefix of the commits made: every commit, and so each commit of
\* several updates, is in it with all of its updates or with none
C2_CrashAtomicity ==
    fs.state = "mounted" =>
        \E p \in 0..Len(commits) : fs.mem = TreeAfter(p)

\* a commit of two updates was cut by the crash between the writes of its
\* two leaves, and is whole after replay
C2_Witness ==
    /\ fs.state = "mounted"
    /\ \E c \in 1..Len(commits) :
          /\ commits[c].keys = Leaves
          /\ dtree["a"] = c /\ dtree["b"] # c
          /\ fs.mem["a"] = c /\ fs.mem["b"] = c

\* every key of every commit whose fsync has returned is in the tree
FsyncedVisible ==
    \A c \in fsynced : \A k \in commits[c].keys : fs.mem[k] >= c

\* C3 as stated: once fsync has returned for a commit, a crash followed by
\* remount and replay yields a tree in which every key of the commit is
\* visible
C3_FsyncDurable ==
    fs.state = "mounted" => FsyncedVisible

\* C3 amended: the same, for a filesystem that is not run with the option
\* journal_flush_disabled
C3_FsyncDurableUnlessDisabled ==
    (fs.state = "mounted" /\ ~fs.journal_flush_disabled) => FsyncedVisible

\* fsync returned for the first commit, a later commit was lost in the crash
C3_Witness ==
    /\ fs.state = "mounted"
    /\ ~fs.journal_flush_disabled
    /\ 1 \in fsynced
    /\ Len(commits) >= 2
    /\ \E k \in commits[2].keys : fs.mem[k] < 2

\* C10: nested_lockrestart_do calls begin once for every restart its body
\* returned and not otherwise; it returns transaction_restart_nested exactly
\* when the body returned 0 after a restart during the call, that is when
\* restart_count differs from its value on entry; without a restart it
\* returns the result of the body, and an error that is no restart is
\* returned as it is
C10_NestedLockrestartDo ==
    /\ nlrd.begins <= nlrd.body_restarts
    /\ npc \in {"_do", "return"} => nlrd.begins = nlrd.body_restarts
    /\ npc = "return" =>
          /\ nlrd.result = IF nlrd._ret2 = 0 /\ nlrd.begins > 0
                           THEN -BCH_ERR_transaction_restart_nested
                           ELSE nlrd._ret2
          /\ (nlrd.begins > 0) <=>
                (ntrans.restart_count # nlrd._orig_restart_count)
          /\ ~bch2_err_matches(nlrd._ret2, BCH_ERR_transaction_restart)

\* the macro returned transaction_restart_nested though its body returned 0
C10_Witness ==
    /\ npc = "return"
    /\ nlrd._ret2 = 0
    /\ nlrd.begins > 0
    /\ nlrd.result = -BCH_ERR_transaction_restart_nested

\* the jset at index i of the journal passes every check of replay
JsetGood(i) ==
    /\ jdisk[i].magic = jset_magic
    /\ jdisk[i].csum = jdisk[i].entries
    /\ jdisk[i].bucket \in JournalBuckets
    /\ jdisk[i].seq \notin fs.blacklist

\* the index of the first jset that fails a check, or one past the end
FirstBad ==
    LET bad == {i \in 1..Len(jdisk) : ~JsetGood(i)} IN
    IF bad = {} THEN Len(jdisk) + 1
    ELSE CHOOSE i \in bad : \A j \in bad : i <= j

\* the value the jsets before index f leave at key k
ReplayedValue(k, f) ==
    LET S == {i \in 1..(f - 1) : jdisk[i].entries[1].key = k} IN
    IF S = {} THEN dtree[k]
    ELSE jdisk[CHOOSE i \in S : \A j \in S : j <= i].entries[1].commit

\* C12: replay applies the entries of the jsets before the first invalid
\* one (bad magic, bad checksum, blacklisted, outside the journal buckets)
\* in ascending seq order, applies none from there on, and records the
\* seqs from the first invalid one on as blacklisted
C12_ReplayStopsAtFirstInvalid ==
    [][(fs.state = "crashed" /\ fs'.state = "mounted") =>
          /\ fs'.replayed = [i \in 1..(FirstBad - 1) |-> jdisk[i].seq]
          /\ fs'.mem = [k \in Leaves |-> ReplayedValue(k, FirstBad)]
          /\ fs'.blacklist = fs.blacklist \cup
                {jdisk[i].seq : i \in FirstBad..Len(jdisk)}]_vars

\* of three jsets the second had a bad checksum: the first was applied,
\* the third, itself intact, was not, and both 2 and 3 are blacklisted
C12_Witness ==
    /\ fs.state = "mounted"
    /\ Len(jdisk) = 3
    /\ jdisk[2].csum # jdisk[2].entries
    /\ jdisk[3].csum = jdisk[3].entries
    /\ jdisk[3].magic = jset_magic /\ jdisk[3].bucket \in JournalBuckets
    /\ fs.replayed = <<1>>
    /\ fs.blacklist = {2, 3}
    /\ jdisk[1].entries[1].key = jdisk[3].entries[1].key
    /\ fs.mem[jdisk[1].entries[1].key] = 1

\* no jset has been reclaimed: the journal still starts at seq 1
NothingReclaimed ==
    IF jdisk = <<>> THEN jopen.seq = 1 ELSE jdisk[1].seq = 1

\* the journal once the open entry is written out as well
JournalWritten == journal_write(jdisk, jopen, TRUE).jdisk

CommitsIn(entries) == {entries[i].commit : i \in 1..Len(entries)}

\* commits c and d reserved in the same journal entry
SameEntry(c, d) ==
    \/ {c, d} \subseteq CommitsIn(jopen.entries)
    \/ \E i \in 1..Len(jdisk) : {c, d} \subseteq CommitsIn(jdisk[i].entries)

\* C14 as stated: of two successful commits of one thread, the first
\* returning before the second starts, the first has the strictly smaller
\* journal seq
C14_SeqStrictlyIncreasing ==
    \A c \in 1..Len(commits), d \in 1..Len(commits) :
        c < d => commits[c].seq < commits[d].seq

\* C14 amended: the seq of the first is not greater than the seq of the
\* second, and the two are equal only when both commits reserved in the
\* same journal entry; the seq of the open entry is above every seq written
C14_SeqNonDecreasing ==
    fs.state = "running" =>
        /\ \A c \in 1..Len(commits), d \in 1..Len(commits) :
              c < d =>
                /\ commits[c].seq <= commits[d].seq
                /\ commits[c].seq = commits[d].seq =>
                      (SameEntry(c, d) \/ NothingReclaimed = FALSE)
        /\ \A c \in 1..Len(commits) : commits[c].seq <= jopen.seq
        /\ \A i \in 1..Len(jdisk) : jdisk[i].seq < jopen.seq

\* the first commit's entry was written before the second commit reserved
C14_Witness ==
    /\ fs.state = "running"
    /\ Len(commits) = 2
    /\ commits[1].seq < commits[2].seq
    /\ \E i \in 1..Len(jdisk) : jdisk[i].seq = commits[1].seq

\* t sleeps: in mutex_lock, or in the operation run by drop_locks_do
MxBlocked(t) == mx.th[t].pc \in {"blocked_mutex", "blocked_do"}

\* t has come back from an operation that dropped its locks
MxCameBack(t) ==
    mx.th[t].dropped /\ mx.th[t].pc \in {"critical", "resumed", "restart", "failed"}

MxRelocked(t) == mx.th[t].ret = 0 /\ mx.node.owner = t

MxRestarted(t) ==
    /\ bch2_err_matches(mx.th[t].ret, BCH_ERR_transaction_restart)
    /\ mx.th[t].pc = "restart"
    /\ mx.node.owner # t

\* C15 as stated: no thread blocks while it holds a tree node lock; after
\* the wait the transaction has either relocked successfully or returns a
\* restart to its retry loop
C15_NoBlockingWithLocks ==
    \A t \in Trans :
        /\ MxBlocked(t) => mx.node.owner # t
        /\ MxCameBack(t) => (MxRelocked(t) \/ MxRestarted(t))

\* C15 amended: no thread blocks while it holds a tree node lock; after the
\* wait the transaction has relocked successfully, or returns a restart to
\* its retry loop, or returns the error of the operation it waited in, with
\* its locks still dropped
C15_NoBlockingWithLocksOrError ==
    \A t \in Trans :
        /\ MxBlocked(t) => mx.node.owner # t
        /\ MxCameBack(t) =>
              \/ MxRelocked(t)
              \/ MxRestarted(t)
              \/ /\ mx.th[t].pc = "failed"
                 /\ mx.th[t].ret \in DoResults \ {0}
                 /\ mx.node.owner # t

\* a thread slept with its locks dropped, the node changed
\* meanwhile, and the thread came back with a restart
C15_Witness ==
    \E t \in Trans :
        /\ MxCameBack(t)
        /\ mx.th[t].ret = -BCH_ERR_transaction_restart_relock
        /\ mx.node.seq > mx.th[t].seen
        /\ mx.mutex = "none"

\* every entry that reclaim has not freed is in its slot as it was written
JrNothingOverwritten ==
    \A e \in jr.pinned :
        /\ jr.ring[e.slot].used
        /\ jr.ring[e.slot].seq = e.seq
        /\ jr.ring[e.slot].owner = e.owner

BucketReused(b) == al.a[b].data_type = "free" /\ al'.a[b].data_type = "open"

\* C17: a bucket emptied by a commit with journal seq s is not handed out
\* again before s is flushed, unless the journal_seq_empty recorded for it
\* is 0; a recorded seq other than 0 is the seq of the emptying commit
C17_NoReuseBeforeFlush ==
    [][\A b \in Buckets :
          /\ al.a[b].journal_seq_empty \in {0, al.emptied_at[b]}
          /\ BucketReused(b) =>
                \/ al.a[b].journal_seq_empty = 0
                \/ al.emptied_at[b] <= al.flushed_seq]_vars

\* one bucket is in use again after the seq that emptied it was flushed,
\* the other waits for the flush of the seq that emptied it
C17_Witness ==
    \E b \in Buckets, c \in Buckets :
        /\ al.a[b].data_type = "open"
        /\ al.a[b].journal_seq_empty > 0
        /\ al.a[c].data_type = "free"
        /\ al.a[c].journal_seq_empty > al.flushed_seq

LiveSnapshots == {id \in SnapshotIds : snap.t[id].state = "live"}

\* no writer is in the middle of a bitmap
BitmapsWritten ==
    \A id \in LiveSnapshots : snap.t[id].is_ancestor = AncestorBits(snap.t, id)

\* A is reachable from S by following parent links zero or more times
ReachableByParents(S, A) == A = S \/ A \in SnapshotAncestors(snap.t, S)

\* C18: in every snapshot tree reached by creations and deletions, for all
\* snapshot IDs A and S, is_ancestor(A, S) is true exactly when A is
\* reachable from S by parent links
C18_IsAncestorIsParentClosure ==
    BitmapsWritten =>
        \A S \in LiveSnapshots, A \in LiveSnapshots :
            bch2_snapshot_is_ancestor(snap.t, S, A) = ReachableByParents(S, A)

\* a tree after a creation and an interior deletion in which one ancestor
\* is found through the skiplist and another through the bitmap
C18_Witness ==
    /\ BitmapsWritten
    /\ \E id \in SnapshotIds : snap.t[id].state = "deleted"
    /\ \E S \in LiveSnapshots, A \in LiveSnapshots, B \in LiveSnapshots :
          /\ A \in SnapshotAncestors(snap.t, S)
          /\ B \in SnapshotAncestors(snap.t, S)
          /\ A - S - 1 >= IsAncestorBitmap
          /\ B - S - 1 < IsAncestorBitmap
          /\ bch2_snapshot_is_ancestor(snap.t, S, A)
          /\ bch2_snapshot_is_ancestor(snap.t, S, B)

\* the writer has written only part of the ancestor bitmap of S
BitmapPartlyWritten(S) ==
    snap.t[S].is_ancestor # AncestorBits(snap.t, S)

\* C19: a reader that runs while the writer has written only part of the
\* ancestor bitmap of a snapshot still gets the correct is_ancestor answer
\* for that snapshot
C19_PartialBitmapTolerated ==
    \A S \in LiveSnapshots :
        BitmapPartlyWritten(S) =>
            \A A \in LiveSnapshots :
                bch2_snapshot_is_ancestor(snap.t, S, A) = ReachableByParents(S, A)

\* the snapshots whose keys an iterator in snapshot S sees: S and the
\* ancestors of S by parent links
IterLine(S) == {S} \cup SnapshotAncestors(IterSnapshotLinks, S)

\* the keys at offset o in the line of S
IterLineKeys(o, S) ==
    {k \in it.keys : k.p.offset = o /\ k.p.snapshot \in IterLine(S)}

\* the version in the nearest ancestor of S
IterNearest(o, S) ==
    CHOOSE k \in IterLineKeys(o, S) :
        \A l \in IterLineKeys(o, S) : k.p.snapshot <= l.p.snapshot

\* offset o shows a key in snapshot S
IterVisible(o, S) ==
    IterLineKeys(o, S) # {} /\ IterNearest(o, S).type = "set"

IterFiltering == "filter_snapshots" \in it.iter.flags

\* C20: an iterator with filter_snapshots and target snapshot S returns
\* only keys of S or of an ancestor of S; the key it returns is the
\* version in the nearest ancestor of S at the first offset, from where it
\* stood, that shows a key; a tombstone hides the offset; at the end no
\* offset from where it stood shows a key
C20_FilterSnapshots ==
    IterFiltering =>
        /\ it.pc = "peeked" =>
              /\ it.k.p.snapshot \in IterLine(it.iter.snapshot)
              /\ it.k.type = "set"
              /\ it.k.p.offset >= it.from
              /\ IterVisible(it.k.p.offset, it.iter.snapshot)
              /\ it.k = IterNearest(it.k.p.offset, it.iter.snapshot)
              /\ \A o \in it.from..(it.k.p.offset - 1) :
                    ~IterVisible(o, it.iter.snapshot)
        /\ it.pc = "end" =>
              \A o \in IterOffsets :
                  o >= it.from => ~IterVisible(o, it.iter.snapshot)

\* the iterator in snapshot 1 has passed a key of snapshot 2, which is not
\* in its line, and a tombstone, and returned a key of an ancestor
C20_Witness ==
    /\ IterFiltering
    /\ it.pc = "peeked"
    /\ it.iter.snapshot = 1
    /\ it.k.p.snapshot > 1
    /\ \E k \in it.keys : k.p.snapshot = 2 /\ k.p.offset = it.k.p.offset
    /\ \E k \in it.keys : k.type = "whiteout" /\ k.p.offset < it.k.p.offset
                               /\ k.p.snapshot \in IterLine(1)

\* the tree holds a key of this type and value at (o, snapshot)
IterKeyAt(o, snapshot, type, v) ==
    \E k \in it.keys :
        /\ k.p = [offset |-> o, snapshot |-> snapshot]
        /\ k.type = type
        /\ k.v = v

\* a lookup at (o, S) has been made
IterLookupDone(o, S) ==
    /\ it.pc \in {"peeked", "end"}
    /\ it.from = o
    /\ it.iter.snapshot = S
    /\ IterFiltering

\* the lookup found a key at offset o
IterLookupFound(o) == it.pc = "peeked" /\ it.k.p.offset = o

IterLookupYields(o, v) == IterLookupFound(o) /\ it.k.v = v

\* K is at (o, S1), S2 is a child of S1 and K' was written at (o, S2)
IterOverwrittenInChild(o, S1, S2) ==
    /\ IterSnapshotParents[S2] = S1
    /\ IterKeyAt(o, S1, "set", "K")
    /\ IterKeyAt(o, S2, "set", "K'")

\* K is at (o, S1), S2 is a child of S1 and K' was deleted at (o, S2)
IterDeletedInChild(o, S1, S2) ==
    /\ IterSnapshotParents[S2] = S1
    /\ IterKeyAt(o, S1, "set", "K")
    /\ IterKeyAt(o, S2, "whiteout", "")

\* C21 as stated: with K at (10,10,S1) and K' written over it in the child
\* S2, a lookup in S1 yields K and a lookup in S2 yields K'; after K' is
\* deleted in S2 a lookup in S2 yields K
C21_DeleteInChildShowsParentKey ==
    \A o \in IterOffsets, S1 \in IterSnapshotIds, S2 \in IterSnapshotIds :
        /\ IterOverwrittenInChild(o, S1, S2) =>
              /\ IterLookupDone(o, S1) => IterLookupYields(o, "K")
              /\ IterLookupDone(o, S2) => IterLookupYields(o, "K'")
        /\ IterDeletedInChild(o, S1, S2) =>
              (IterLookupDone(o, S2) => IterLookupYields(o, "K"))

\* C21 amended: with K at (10,10,S1) and K' written over it in the child
\* S2, a lookup in S1 yields K and a lookup in S2 yields K'; after K' is
\* deleted in S2 a lookup in S2 finds no key at the position, the tombstone
\* in S2 hides K, and a lookup in S1 still yields K
C21_DeleteInChildHidesParentKey ==
    \A o \in IterOffsets, S1 \in IterSnapshotIds, S2 \in IterSnapshotIds :
        /\ IterOverwrittenInChild(o, S1, S2) =>
              /\ IterLookupDone(o, S1) => IterLookupYields(o, "K")
              /\ IterLookupDone(o, S2) => IterLookupYields(o, "K'")
        /\ IterDeletedInChild(o, S1, S2) =>
              /\ IterLookupDone(o, S2) => ~IterLookupFound(o)
              /\ IterLookupDone(o, S1) => IterLookupYields(o, "K")

\* K' was deleted in the child and the lookup in the child has come back
\* without a key of the position
C21_Witness ==
    \E o \in IterOffsets, S1 \in IterSnapshotIds, S2 \in IterSnapshotIds :
        /\ IterDeletedInChild(o, S1, S2)
        /\ IterLookupDone(o, S2)
        /\ ~IterLookupFound(o)

\* the slot peek at P has returned without an error
SlotPeeked == sl.pc = "looked_up" /\ sl.ret.err = 0

\* C22: a slot peek at P never returns null; a key that exists exactly at P
\* is returned with its exact bytes; where there is none, and where a
\* tombstone was inserted at P, the result is a key of type deleted at
\* exactly P with no value
C22_SlotPeek ==
    SlotPeeked =>
        LET P == sl.path.pos
            k == sl.ret.k
        IN /\ k.type # "null"
           /\ k.p = P
           /\ IF sl.keys[P].type = "inode_v3"
              THEN k = sl.keys[P]
              ELSE k.type = "deleted" /\ k.v = "NULL"

\* a cached slot peek at a position that holds a tombstone while the
\* parent snapshot holds a key
C22_Witness ==
    /\ SlotPeeked
    /\ sl.path.cached
    /\ sl.path.pos.snapshot = 1
    /\ sl.keys[sl.path.pos].type = "none"
    /\ sl.keys[[offset |-> 0, snapshot |-> 2]].type = "inode_v3"
    /\ sl.ret.k.type = "deleted"

RECURSIVE PathRefSum(_, _)
PathRefSum(tr, S) ==
    IF S = {} THEN 0
    ELSE LET i == Lowest(S) IN tr.paths[i].ref + PathRefSum(tr, S \ {i})

RECURSIVE PathIntentSum(_, _)
PathIntentSum(tr, S) ==
    IF S = {} THEN 0
    ELSE LET i == Lowest(S)
         IN tr.paths[i].intent_ref + PathIntentSum(tr, S \ {i})

\* the iterators that hold a reference on path idx
PathHolders(tr, idx) == {i \in PathIters : tr.iters[i].path = idx}

PathsBegun == tp.began /\ ~tp.panic

ArOverlap(a, b) == a.p < b.p + b.size /\ b.p < a.p + a.size

\* the begins that found memory to free: every call but the first
ArResets == IF ar.begins = 0 THEN 0 ELSE ar.begins - 1

\* a restart has been raised and begin has not yet run for it
ArRestartPending == IF ar.trans.restarted # 0 THEN 1 ELSE 0

\* C25: a transaction that has restarted k times has made at most k+1 commit
\* attempts and has had its arena reset k times by the time its body runs
\* again (begin was called k+1 times); the pieces of memory handed out since
\* the last begin lie in the arena and do not overlap
C25_RestartsCommitsArena ==
    /\ ar.commits <= ar.restarts + 1
    /\ ar.pc # "transaction_restart" \/ ar.begins > 0
            => ArResets + ArRestartPending = ar.restarts
    /\ ar.pc = "return" => ar.begins = ar.restarts + 1
    /\ ar.pc # "panic"
    /\ \A i \in 1..Len(ar.handed) :
        /\ ar.handed[i].p >= 0
        /\ ar.handed[i].p + ar.handed[i].size <= ar.trans.mem_bytes
        /\ ar.handed[i].p + ar.handed[i].size <= ar.trans.mem_top
        /\ \A j \in 1..Len(ar.handed) :
            i # j => ~ArOverlap(ar.handed[i], ar.handed[j])

\* lockrestart_do has returned success after the arena was grown under the
\* body and after a commit restarted, with two pieces of memory handed out
\* in the last attempt
C25_Witness ==
    /\ ar.pc = "return"
    /\ ar._ret2 = 0
    /\ ar.restarts >= 2
    /\ ar.commits = 2
    /\ ar.trans.mem_bytes > ArenaBytes
    /\ Len(ar.handed) = 2

\* C26: the allocated paths of a transaction never outnumber the slots of its
\* table, and a check made while more than the soft limit of them are
\* allocated answers with the too_many_iters restart, never with 0
C26_PathsBounded ==
    /\ ti.paths_allocated \subseteq PathSlots
    /\ bitmap_weight(ti.paths_allocated, ti.nr_paths) <= BTREE_ITER_MAX
    /\ ti.pc = "checked"
            /\ bitmap_weight(ti.paths_allocated, ti.nr_paths) - 1
                    > BTREE_ITER_NORMAL_LIMIT
        => /\ ti.ret = -BCH_ERR_transaction_restart_too_many_iters
           /\ bch2_err_matches(ti.ret, BCH_ERR_transaction_restart)

\* a check made with every slot of the table taken
C26_Witness ==
    /\ ti.pc = "checked"
    /\ ti.paths_allocated = PathSlots
    /\ ti.ret = -BCH_ERR_transaction_restart_too_many_iters

\* C27: a commit started with the emergency flag set has returned
\* emergency_readonly in its first step and has written nothing
C27_CommitAfterFatalError ==
    \A t \in EmThreads :
        em.after[t] =>
            /\ em.pc[t] = "returned"
            /\ em.ret[t] = -BCH_ERR_emergency_readonly
            /\ ~em.wrote[t]

\* both threads were refused after one of them had written and the other
\* had failed on fatal I/O
C27_Witness ==
    /\ em.emergency_ro
    /\ em.journal > 0
    /\ \A t \in EmThreads :
        /\ em.after[t]
        /\ em.pc[t] = "returned"
        /\ em.ret[t] = -BCH_ERR_emergency_readonly

\* the buckets a journal_v2 field stands for, as its reader expands it:
\* le64_to_cpu(start) .. le64_to_cpu(start) + le64_to_cpu(nr) - 1 per range
RECURSIVE SbExpand(_, _)
SbExpand(d, big_endian) ==
    IF d = <<>> THEN <<>>
    ELSE LET start == le64_to_cpu(d[1].start, big_endian)
             nr == le64_to_cpu(d[1].nr, big_endian)
         IN [i \in 1..nr |-> start + i - 1] \o SbExpand(Tail(d), big_endian)

\* no range ends where the next one starts
SbRangesMaximal(d, big_endian) ==
    \A k \in 1..(Len(d) - 1) :
        le64_to_cpu(d[k].start, big_endian) + le64_to_cpu(d[k].nr, big_endian)
            # le64_to_cpu(d[k + 1].start, big_endian)

SbWritten == sb.pc = "written" /\ sb.ret = 0

\* C28: when bch2_journal_buckets_to_sb has returned 0 the v1 field is gone;
\* with journal buckets the journal_v2 field, expanded in order, is the
\* sequence ja->buckets[0..nr), its ranges are the maximal runs of
\* consecutive buckets and as many as were counted beforehand (the BUG_ON
\* never fires); without journal buckets the journal_v2 field is gone too
C28_JournalBucketsRoundTrip ==
    /\ ~sb.bug
    /\ SbWritten =>
        /\ ~sb.disk_sb.journal
        /\ IF sb.ja.nr = 0
           THEN ~sb.disk_sb.journal_v2
           ELSE /\ sb.disk_sb.journal_v2
                /\ SbExpand(sb.disk_sb.d, sb.big_endian) = sb.ja.buckets
                /\ Len(sb.disk_sb.d) = JournalRunCount(sb.ja.buckets)
                /\ SbRangesMaximal(sb.disk_sb.d, sb.big_endian)

\* on a big endian cpu, three journal buckets in two runs, the second run
\* below the first, were written over a v1 field
C28_Witness ==
    /\ SbWritten
    /\ sb.big_endian
    /\ sb.had_v1
    /\ sb.ja.nr = 3
    /\ sb.ja.buckets[1] + 1 = sb.ja.buckets[2]
    /\ sb.ja.buckets[3] < sb.ja.buckets[1]
    /\ Len(sb.disk_sb.d) = 2

\* -y is on the command line and no -a, -p or -n comes after it
FsckYes ==
    \E i \in 1..Len(fk.line) :
        /\ fk.line[i] = "y"
        /\ \A j \in (i + 1)..Len(fk.line) : fk.line[j] \notin {"a", "p", "n"}

\* C29: when fsck was run with -y and has checked the filesystem,
\* fix_errors is yes, no question was asked and the errors found are fixed
C29_YesFixesWithoutAsking ==
    fk.pc = "checked" /\ FsckYes =>
        /\ fk.opts.fix_errors = "FSCK_FIX_yes"
        /\ ~fk.asked
        /\ fk.errors => fk.fixed

\* C30: no FUSE handler replies to its client with a transaction restart:
\* a restart from peek, write or commit sends the handler back to begin
C30_NoRestartToFuseClient ==
    fu.pc = "replied"
        => ~bch2_err_matches(fu.reply, BCH_ERR_transaction_restart)

\* the positions of a sequence, each as often as it occurs, in order, with
\* repetitions of one position next to each other collapsed
RECURSIVE FeCollapse(_)
FeCollapse(q) ==
    IF Len(q) <= 1 THEN q
    ELSE IF q[1] = q[2] THEN FeCollapse(Tail(q))
    ELSE <<q[1]>> \o FeCollapse(Tail(q))

FeAscending(q) == \A i \in 1..(Len(q) - 1) : q[i] < q[i + 1]

FeSet(q) == {q[i] : i \in 1..Len(q)}

\* C31: for_each_btree_key_max visits the keys of [start, end] in strictly
\* ascending order of position; the body runs only after a begin and runs
\* again for the same key after a restart, the iterator moves on only from a
\* key whose body returned 0, so no key is skipped; the loop ends at the
\* first error that is not a restart and returns it; the iterator is exited
\* whenever the loop has ended.
C31_ForEachVisitsEveryKeyInOrder ==
    fe.pc # "off" =>
        LET range == FeRange(fe.keys, fe.start, fe.end, fe.slots)
            done == FeSet(fe.visited)
        IN /\ fe.pc # "panic"
           /\ FeAscending(fe.visited)
           /\ \/ FeCollapse(fe.runs) = fe.visited
              \/ /\ range \ done # {}
                 /\ FeCollapse(fe.runs)
                        = Append(fe.visited, Lowest(range \ done))
           /\ fe.pc = "body" => fe.began
           /\ done \subseteq range
           /\ fe.iter.live =>
                \A p \in range : p < fe.iter.pos => p \in done
           /\ fe.pc = "done" =>
                /\ ~fe.iter.live
                /\ ~bch2_err_matches(fe.ret, BCH_ERR_transaction_restart)
                /\ fe.ret = 0 => done = range
                /\ fe.ret # 0 =>
                     /\ fe.ret = -ENOMEM
                     /\ \A p \in range : p \in done \/ p >= fe.iter.pos

\* a loop over several keys that ended with 0 after its body was restarted
C31_Witness ==
    /\ fe.pc = "done"
    /\ fe.ret = 0
    /\ Len(fe.visited) >= 2
    /\ Len(fe.runs) > Len(fe.visited)
    /\ fe.restarts >= 1

\* bucket b lies inside one of the reserved extents, no two of which touch
MgBucketReserved(ca, extents, b) ==
    \E i \in 1..Len(extents) :
        /\ extents[i].start <= bucket_to_sector(ca, b) * MgSectorBytes
        /\ bucket_to_sector(ca, b + 1) * MgSectorBytes <= extents[i].end

\* the buckets the new filesystem must not allocate from
MgOldBuckets(ca, extents) ==
    {b \in 0..(ca.nbuckets - 1) :
        \/ ~MgBucketReserved(ca, extents, b)
        \/ bucket_to_sector(ca, b)
                < BCH_SB_SECTOR + 2 * (2 ^ ca.sb_max_size_bits)}

\* C32: from the start of the new filesystem of a migrate on, every bucket
\* with a byte outside the reserved extents and every bucket that overlaps
\* the sectors [0, BCH_SB_SECTOR + 2 * sb_size) is in buckets_nouse, and the
\* allocator has handed out none of them.
C32_OldFilesystemBucketsAreNoUse ==
    (mg.pc # "off" /\ mg.pc \in {"marked", "started", "stopped"}) =>
        /\ MgOldBuckets(mg.ca, mg.extents) \subseteq mg.ca.buckets_nouse
        /\ mg.allocated \cap MgOldBuckets(mg.ca, mg.extents) = {}

\* the offsets of a layout in the order of the array, as the cpu reads them
LyOffsets(layout, big_endian) ==
    [i \in 1..layout.nr_superblocks |->
        le64_to_cpu(layout.sb_offset[i], big_endian)]

\* C39: add_default_sb_layout never stores beyond the sb_offset array: it
\* adds the two default offsets only to a layout with room for two more
\* entries, with the offsets the layout had after them in their order, and
\* otherwise it ends the program with the layout as it was.
C39_LayoutArrayNeverOverrun ==
    (ly.pc # "off" /\ ly.pc # "read") =>
        /\ ly.beyond = {}
        /\ ly.pc = "died" => ly.layout = ly.before
        /\ ly.pc \in {"added", "zeroed"} =>
             /\ ly.before.nr_superblocks + 2 <= SbLayoutOffsets
             /\ LyOffsets(ly.layout, ly.big_endian)
                  = <<BCH_SB_SECTOR,
                      BCH_SB_SECTOR + 2 ^ ly.before.sb_max_size_bits>>
                    \o LyOffsets(ly.before, ly.big_endian)

\* the buckets that overlap the two default superblocks
MsDefaultSbBuckets(ca) ==
    {b \in 0..(ca.nbuckets - 1) :
        /\ bucket_to_sector(ca, b)
                < BCH_SB_SECTOR + 2 * (2 ^ ca.sb_max_size_bits)
        /\ bucket_to_sector(ca, b + 1) > BCH_SB_SECTOR}

MsOrder ==
    <<"zero", "mark_nouse_range", "bch2_fs_start", "bch2_write_super",
      "bch2_trans_mark_dev_sb">>

\* C33: cmd_migrate_superblock takes the buckets of the default superblock
\* area from the allocator before it starts the filesystem and writes the
\* new layout before it marks the superblock buckets in the metadata; from
\* the start of the filesystem to the end of the command the allocator hands
\* out no bucket that overlaps a default superblock.
C33_DefaultSbBucketsNeverAllocated ==
    (mg.pc # "off" /\ mg.extents = <<>>) =>
        /\ Len(mg.order) <= Len(MsOrder)
        /\ mg.order = SubSeq(MsOrder, 1, Len(mg.order))
        /\ mg.pc \in {"started", "stopped"} =>
             MsDefaultSbBuckets(mg.ca) \subseteq mg.ca.buckets_nouse
        /\ mg.allocated \cap MsDefaultSbBuckets(mg.ca) = {}
        /\ mg.pc = "stopped" =>
             /\ mg.order = MsOrder
             /\ LyOffsets(mg.layout, mg.big_endian)[1] = BCH_SB_SECTOR

\* the command ran to its end while the allocator handed out buckets, on a
\* device where the default superblocks overlap more than one bucket
C33_Witness ==
    /\ mg.pc = "stopped"
    /\ mg.extents = <<>>
    /\ mg.allocated # {}
    /\ Cardinality(MsDefaultSbBuckets(mg.ca)) > 1

\* the buckets a field denotes, one entry for each time it denotes them: a
\* v1 field lists them, a v2 range of nr buckets from start denotes start,
\* start + 1, ..., as u64
JvDenoted(kind, buckets, d, big_endian) ==
    IF kind = "journal"
    THEN {<<i, 0, le64_to_cpu(buckets[i], big_endian)>> :
             i \in 1..Len(buckets)}
    ELSE UNION {{<<i, j, (le64_to_cpu(d[i].start, big_endian) + j)
                            % SbIntMod>> :
                    j \in 0..(le64_to_cpu(d[i].nr, big_endian) - 1)} :
                i \in 1..Len(d)}

JvFieldValid(kind, buckets, d, big_endian, first_bucket, nbuckets) ==
    LET den == JvDenoted(kind, buckets, d, big_endian)
    IN /\ \A x \in den : x[3] # 0
       /\ \A x \in den : x[3] >= first_bucket /\ x[3] < nbuckets
       /\ \A x, y \in den : x # y => x[3] # y[3]

\* C34: a validator of a journal field that could allocate its array
\* returns 0 exactly when the buckets the field denotes do not include
\* bucket 0, are all in [first_bucket, nbuckets) and include no bucket
\* twice; a field without entries is accepted.
C34_JournalFieldAcceptedIffValid ==
    (jv.pc # "off" /\ jv.pc = "validated" /\ ~jv.enomem) =>
        /\ jv.ret = 0 <=> JvFieldValid(jv.kind, jv.buckets, jv.d,
                                       jv.big_endian, jv.first_bucket,
                                       jv.nbuckets)
        /\ (Len(jv.buckets) = 0 /\ Len(jv.d) = 0) => jv.ret = 0

\* the parent and the bios chained to it
BioLive == {0} \cup {c \in BioChildren : bi.chained[c]}

\* C35: under every interleaving of the completions of a bio and of the
\* bios chained to it, the bi_end_io of the parent is called at most once,
\* only after bio_endio was called for the parent and for every bio chained
\* to it, and it has been called once every completion has returned.
C35_ParentEndIoExactlyOnce ==
    /\ \A t \in Bios : bi.thread[t].pc # "BUG"
    /\ Len(bi.bi_end_io) <= 1
    /\ Len(bi.bi_end_io) = 1 =>
         /\ bi.bi_end_io[1] = BioLive
         /\ bi.put = BioLive \ {0}
    /\ (\A t \in BioLive : bi.thread[t].pc = "done")
         => Len(bi.bi_end_io) = 1

\* the parent's bi_end_io was called by the thread of a chained bio, after
\* the parent's own completion had returned
C35_Witness ==
    /\ Len(bi.bi_end_io) = 1
    /\ Cardinality(BioLive) = MaxBioChildren + 1
    /\ bi.thread[0].pc = "done"
    /\ \E c \in BioChildren :
          bi.thread[c].pc = "done" /\ bi.thread[c].bio = 0

\* what the holders of a path see of it
PathSeen(path) ==
    [pos |-> path.pos, nodes_locked |-> path.nodes_locked,
     should_be_locked |-> path.should_be_locked]

\* iterator i is moved by this step
PathMoved(i) ==
    /\ tp.iters[i].path # 0
    /\ tp'.iters[i].path # 0
    /\ tp'.paths[tp'.iters[i].path].pos # tp.paths[tp.iters[i].path].pos

\* C36: an iterator that moves never moves a path that is shared (ref > 1)
\* or marked preserve: it is given another path, the path it had keeps its
\* position and its locks for the others that hold it, and the path it is
\* given is not marked should_be_locked.
C36_MakeMutLeavesSharedPathsAlone ==
    [][(~tp.panic /\ ~tp'.panic) =>
        \A i \in PathIters : PathMoved(i) =>
            LET old == tp.iters[i].path
                new == tp'.iters[i].path
            IN /\ (tp.paths[old].ref > 1 \/ tp.paths[old].preserve) =>
                    /\ new # old
                    /\ tp'.paths[old].allocated
                    /\ PathSeen(tp'.paths[old]) = PathSeen(tp.paths[old])
                    /\ tp'.paths[old].ref = tp.paths[old].ref - 1
               /\ \A j \in PathIters \ {i} :
                    /\ tp'.iters[j] = tp.iters[j]
                    /\ tp.iters[j].path # 0 =>
                         PathSeen(tp'.paths[tp.iters[j].path])
                            = PathSeen(tp.paths[tp.iters[j].path])
               /\ ~tp'.paths[new].should_be_locked]_vars

\* an iterator was moved off a path that another iterator holds locked
C36_Witness ==
    \E i, j \in PathIters :
        /\ i # j
        /\ tp.iters[i].path # 0
        /\ tp.iters[j].path # 0
        /\ tp.iters[i].path # tp.iters[j].path
        /\ tp.paths[tp.iters[j].path].should_be_locked
        /\ ~tp.paths[tp.iters[j].path].preserve
        /\ tp.paths[tp.iters[i].path].pos # tp.paths[tp.iters[j].path].pos
        /\ ~tp.paths[tp.iters[i].path].nodes_locked

\* C37: a FUSE rename hands srcname to the rename transaction as the source
\* name and dstname as the destination name; after a rename that succeeded
\* srcname is not found in src_dir and dstname in dst_dir is the inode that
\* was named srcname.
C37_RenameMovesSrcToDst ==
    fr.pc = "replied" =>
        /\ fr.args.src_name = fr.req.srcname
        /\ fr.args.dst_name = fr.req.dstname
        /\ fr.ret = 0 =>
             /\ fr.dirs[fr.req.src_dir][fr.req.srcname] = FrNone
             /\ fr.dirs[fr.req.dst_dir][fr.req.dstname]
                    = fr.before[fr.req.src_dir][fr.req.srcname]
             /\ fr.before[fr.req.src_dir][fr.req.srcname] # FrNone

FwMin(a, b) == IF a < b THEN a ELSE b

\* the bytes of [offset, offset + size) among the first n of the buffer
FwTransferred(n) == FwMin(fw.size, MgMax(0, n - fw.align.pad_start))

\* C38: with the first n bytes of the aligned buffer transferred, the bytes
\* the FUSE write counts for the caller are those of [offset, offset + size)
\* among them, min(size, max(0, n - pad_start)); the count never exceeds
\* size and is above 0 in every write that is reported as successful.
C38_WrittenIsTheCallersBytes ==
    fw.pc \in {"BUG", "replied"} =>
        /\ fw.written = FwTransferred(fw.aligned_written)
        /\ fw.written <= fw.size
        /\ (fw.pc = "replied" /\ fw.ret = 0) => fw.written > 0

MoIsFlag(o) == \E i \in 1..flag_count : mount_opt_flags[i].name = o

MoMask(o) == mount_opt_flags[CHOOSE i \in 1..flag_count : mount_opt_flags[i].name = o].mask

\* the masks of the options that name mount flags, or-ed
RECURSIVE MoFlags(_)
MoFlags(opts) ==
    IF opts = <<>> THEN 0
    ELSE MoOr(IF MoIsFlag(Head(opts)) THEN MoMask(Head(opts)) ELSE 0,
              MoFlags(Tail(opts)))

\* the other options in input order, with commas between them
RECURSIVE MoRest(_, _)
MoRest(opts, first) ==
    IF opts = <<>> THEN ""
    ELSE IF MoIsFlag(Head(opts)) THEN MoRest(Tail(opts), first)
    ELSE (IF first THEN "" ELSE ",") \o Head(opts) \o MoRest(Tail(opts), FALSE)

\* C40: parse_mount_options ends for every option string, returns the or of
\* the masks of exactly the options that name mount flags and copies every
\* other option, in input order and with commas, to *mount_options, and
\* reads nothing behind the end of the mount flag table.
C40_MountOptionsSplitWithinTable ==
    /\ ~mo.beyond
    /\ mo.pc # "fault"
    /\ mo.pc = "returned" =>
        /\ mo.flag = MoFlags(mo._opts)
        /\ mo.mount_options = MoRest(mo._opts, TRUE)

====
